---- MODULE Spec2Model ----
(***************************************************************************)
(* smart-keyvault: the provider registry (internal/provider/registry.go)   *)
(* and the configuration resolver's instance selection                     *)
(* (internal/config/helpers.go).                                           *)
(*                                                                         *)
(* Spec       : goroutines calling Register / GetProvider / ListProviders  *)
(*              / IsRegistered on the process-wide registry, step by step, *)
(*              with sync.RWMutex modelled explicitly.                     *)
(* FairSpec   : the same calls with one constructor and one settings bag,  *)
(*              under weak fairness of every goroutine's steps.            *)
(* SpecConfig : the Config instance-selection methods applied to bounded   *)
(*              configurations.                                            *)
(* SpecExpand : expandEnvVars (internal/config/types.go) applied to short  *)
(*              texts under small environments.                            *)
(* SpecLoad   : Load and LoadFromFile (internal/config/types.go) applied   *)
(*              to bounded files and environments.                         *)
(* SpecCommand: getProviderConfig of the command layer applied to bounded  *)
(*              configurations and flags.                                  *)
(* SpecHashicorp : ListSecrets and GetSecret of the Vault backend          *)
(*              (internal/hashicorp/provider.go) applied to bounded        *)
(*              answers of the Vault server.                               *)
(* SpecRun    : one run of a command of the CLI (list-vaults,              *)
(*              list-secrets, get-secret, walk-secrets) from its flags,    *)
(*              files and environment to its exit, against a secret store  *)
(*              whose answers are bounded.                                 *)
(* FairSpecRun: the same under weak fairness of the command's own steps.   *)
(* SpecCache  : goroutines calling getSecretsClient on one azure Client,   *)
(*              step by step, with its sync.RWMutex modelled explicitly.   *)
(***************************************************************************)
EXTENDS Integers, Sequences, FiniteSets, TLC

(***************************************************************************)
(* Bounds                                                                  *)
(***************************************************************************)
\* number of goroutines using the registry
NumThreads == 2
\* total number of registry calls made in one behaviour (nested ones included)
MaxCalls == 3
\* depth of registry calls: 1 = a call from a goroutine, 2 = a call made by a
\* constructor that GetProvider is running
MaxDepth == 2
\* longest instance list of a provider block
MaxInstances == 2

Threads == 1..NumThreads
NoThread == 0

\* provider names used as registry keys
Names == {"azure", "hashicorp"}
\* constructor values (ProviderFactory); F_ok always builds a provider,
\* F_strict fails on a nil *Config
Factories == {"F_ok", "F_strict"}
NoFactory == "nil"
\* *Config arguments: the nil pointer and one settings bag
Settings == {"nil", "s1"}
\* a nil pointer or nil interface value
Nil == [nil |-> TRUE]
NoProvider == Nil
NoError == "nil"

VARIABLES
    factories,   \* defaultRegistry.factories: name -> constructor
    mu,          \* defaultRegistry.mu: [w, writing, readers]
    stack,       \* per goroutine: the registry calls in progress, innermost last
    nCalls,      \* calls started so far (bounds the behaviour)
    registered,  \* history: the names some Register has stored
    appConfig,   \* the Config the resolver methods are called on
    res,         \* the last call made outside the registry and what it returned
    environ,     \* the process environment: the variables set -> their values
    fs,          \* the config files: [default, given], each a file state
    proc,        \* the command being run: its flags, its position, its locals
    io,          \* what the command has written: [stdout, stderr, clipboard, status]
    backend,     \* what the secret store answers to the provider's operations
    azClient,    \* the azure Client: [secretClients, mu]
    getting      \* per goroutine: its getSecretsClient call; and the calls returned

regVars == <<factories, mu, stack, nCalls, registered>>
cfgVars == <<appConfig, res>>
sysVars == <<environ, fs>>
runVars == <<proc, io, backend>>
cacheVars == <<azClient, getting>>
vars == <<factories, mu, stack, nCalls, registered, appConfig, res, environ, fs,
          proc, io, backend, azClient, getting>>

(***************************************************************************)
(* ProviderFactory: what a constructor returns for a *Config               *)
(***************************************************************************)
FactoryResult(f, cfg) ==
    IF f = "F_strict" /\ cfg = "nil"
    THEN [provider |-> NoProvider, err |-> "settings required"]
    ELSE [provider |-> [factory |-> f, cfg |-> cfg], err |-> NoError]

(***************************************************************************)
(* Call frames                                                             *)
(***************************************************************************)
FirstPc(op) ==
    IF op = "Register" THEN "Lock" ELSE "RLock"

\* a call that has just been entered; allowed / regAtStart are history:
\* the constructors stored under the name at entry or later, and whether the
\* name was stored at entry
NewFrame(op, name, f, cfg) ==
    [op |-> op, name |-> name, factory |-> f, cfg |-> cfg, pc |-> FirstPc(op),
     fac |-> NoFactory, exists |-> FALSE, names |-> <<>>,
     ret |-> [provider |-> NoProvider, err |-> NoError],
     invoked |-> <<>>,
     allowed |-> IF name \in DOMAIN factories THEN {factories[name]} ELSE {},
     regAtStart |-> name \in DOMAIN factories]

Depth(t) == Len(stack[t])
Top(t) == stack[t][Depth(t)]
At(t, op, pc) == Depth(t) > 0 /\ Top(t).op = op /\ Top(t).pc = pc

SetTop(t, fr) == [stack EXCEPT ![t] = [@ EXCEPT ![Len(@)] = fr]]

\* the arguments a caller may pass
CallArgs ==
    { <<"Register", n, f, "nil">> : n \in Names, f \in Factories }
    \cup { <<"GetProvider", n, NoFactory, s>> : n \in Names, s \in Settings }
    \cup { <<"IsRegistered", n, NoFactory, "nil">> : n \in Names }
    \cup { <<"ListProviders", "", NoFactory, "nil">> }

\* the same calls with one constructor and one settings bag: which constructor
\* is stored and what it is given does not change what the calls do to the mutex
LockCallArgs ==
    { a \in CallArgs : a[3] \in {NoFactory, "F_ok"} /\ (a[1] = "GetProvider" => a[4] = "s1") }

(***************************************************************************)
(* sync.RWMutex                                                            *)
(* Lock: take the writers' mutex (from then on new readers wait), then     *)
(* wait for the active readers to leave. RLock: wait while a writer holds  *)
(* or is pending.                                                          *)
(***************************************************************************)
NoReaders == \A u \in Threads : mu.readers[u] = 0

CanRLock == mu.w = NoThread
CanLock == mu.w = NoThread
CanWrite == NoReaders

RLockMu(t) == [mu EXCEPT !.readers[t] = @ + 1]
RUnlockMu(t) == [mu EXCEPT !.readers[t] = @ - 1]
LockMu(t) == [mu EXCEPT !.w = t]
\* an Unlock that leaves the writers' mutex taken
UnlockMu_Leak(t) == [mu EXCEPT !.writing = FALSE]
UnlockMu(t) == [mu EXCEPT !.w = NoThread, !.writing = FALSE]

(***************************************************************************)
(* Entering and leaving calls                                              *)
(***************************************************************************)
\* a goroutine calls a registry function with arguments among args
\* (goroutines are interchangeable: they are numbered in the order of their
\* first call)
CallWith(t, args) ==
    /\ nCalls < MaxCalls
    /\ IF t = 1 THEN TRUE ELSE Depth(t - 1) > 0
    /\ IF Depth(t) = 0 THEN TRUE ELSE Depth(t) = 1 /\ Top(t).pc = "done"
    /\ \E a \in args :
         stack' = [stack EXCEPT ![t] = <<NewFrame(a[1], a[2], a[3], a[4])>>]
    /\ nCalls' = nCalls + 1
    /\ UNCHANGED <<factories, mu, registered, cfgVars, sysVars, runVars, cacheVars>>

\* the constructor GetProvider is running calls a registry function itself
ConstructorCallWith(t, args) ==
    /\ nCalls < MaxCalls
    /\ At(t, "GetProvider", "call")
    /\ Depth(t) < MaxDepth
    /\ \E a \in args :
         stack' = [stack EXCEPT ![t] = Append(@, NewFrame(a[1], a[2], a[3], a[4]))]
    /\ nCalls' = nCalls + 1
    /\ UNCHANGED <<factories, mu, registered, cfgVars, sysVars, runVars, cacheVars>>

Call(t) == CallWith(t, CallArgs)
ConstructorCall(t) == ConstructorCallWith(t, CallArgs)

\* a call made by a constructor returns to the constructor
ConstructorResume(t) ==
    /\ Depth(t) > 1
    /\ Top(t).pc = "done"
    /\ stack' = [stack EXCEPT ![t] = SubSeq(@, 1, Len(@) - 1)]
    /\ UNCHANGED <<factories, mu, nCalls, registered, cfgVars, sysVars, runVars, cacheVars>>

(***************************************************************************)
(* Register                                                                *)
(***************************************************************************)
\* defaultRegistry.mu.Lock(), first half: the writers' mutex is taken
RegisterLock(t) ==
    /\ At(t, "Register", "Lock")
    /\ CanLock
    /\ mu' = LockMu(t)
    /\ stack' = SetTop(t, [Top(t) EXCEPT !.pc = "LockWait"])
    /\ UNCHANGED <<factories, nCalls, registered, cfgVars, sysVars, runVars, cacheVars>>

\* a registry that keeps the first constructor stored under a name
StoreFactory_FirstWins(m, name, f) ==
    [n \in DOMAIN m \cup {name} |-> IF n \in DOMAIN m THEN m[n] ELSE f]

\* factories[name] = factory
StoreFactory(m, name, f) ==
    [n \in DOMAIN m \cup {name} |-> IF n = name THEN f ELSE m[n]]

\* history: every GetProvider for the name that has not looked the name up yet
\* may now see f
NoteStored(st, name, f) ==
    [u \in Threads |->
        [i \in 1..Len(st[u]) |->
            IF /\ st[u][i].op = "GetProvider"
               /\ st[u][i].name = name
               /\ st[u][i].pc = "RLock"
            THEN [st[u][i] EXCEPT !.allowed = @ \cup {f}]
            ELSE st[u][i]]]

\* Lock(), second half: the active readers have left; then
\* defaultRegistry.factories[name] = factory
RegisterWrite(t) ==
    /\ At(t, "Register", "LockWait")
    /\ CanWrite
    /\ mu' = [mu EXCEPT !.writing = TRUE]
    /\ factories' = StoreFactory(factories, Top(t).name, Top(t).factory)
    /\ registered' = registered \cup {Top(t).name}
    /\ stack' = NoteStored(SetTop(t, [Top(t) EXCEPT !.pc = "Unlock"]),
                           Top(t).name, Top(t).factory)
    /\ UNCHANGED <<nCalls, cfgVars, sysVars, runVars, cacheVars>>

\* defer defaultRegistry.mu.Unlock()
RegisterUnlock(t) ==
    /\ At(t, "Register", "Unlock")
    /\ mu' = UnlockMu(t)
    /\ stack' = SetTop(t, [Top(t) EXCEPT !.pc = "done"])
    /\ UNCHANGED <<factories, nCalls, registered, cfgVars, sysVars, runVars, cacheVars>>

(***************************************************************************)
(* GetProvider                                                             *)
(***************************************************************************)
\* defaultRegistry.mu.RLock(); factory, exists := defaultRegistry.factories[name]
GetProviderRLock(t) ==
    /\ At(t, "GetProvider", "RLock")
    /\ CanRLock
    /\ mu' = RLockMu(t)
    /\ stack' = SetTop(t, [Top(t) EXCEPT
                  !.exists = Top(t).name \in DOMAIN factories,
                  !.fac = IF Top(t).name \in DOMAIN factories
                          THEN factories[Top(t).name] ELSE NoFactory,
                  !.pc = "RUnlock"])
    /\ UNCHANGED <<factories, nCalls, registered, cfgVars, sysVars, runVars, cacheVars>>

\* a GetProvider that keeps the read lock while the constructor runs
GetProviderRUnlock_Held(t) ==
    /\ At(t, "GetProvider", "RUnlock")
    /\ mu' = IF Top(t).exists THEN mu ELSE RUnlockMu(t)
    /\ stack' = SetTop(t,
          IF ~Top(t).exists
          THEN [Top(t) EXCEPT
                  !.ret = [provider |-> NoProvider,
                           err |-> "provider not found: " \o Top(t).name],
                  !.pc = "done"]
          ELSE [Top(t) EXCEPT
                  !.invoked = Append(@, <<Top(t).fac, Top(t).cfg>>),
                  !.pc = "call"])
    /\ UNCHANGED <<factories, nCalls, registered, cfgVars, sysVars, runVars, cacheVars>>

\* a GetProvider that reports an unknown name without an error
GetProviderRUnlock_NoError(t) ==
    /\ At(t, "GetProvider", "RUnlock")
    /\ mu' = RUnlockMu(t)
    /\ stack' = SetTop(t,
          IF ~Top(t).exists
          THEN [Top(t) EXCEPT !.pc = "done"]
          ELSE [Top(t) EXCEPT
                  !.invoked = Append(@, <<Top(t).fac, Top(t).cfg>>),
                  !.pc = "call"])
    /\ UNCHANGED <<factories, nCalls, registered, cfgVars, sysVars, runVars, cacheVars>>

\* defaultRegistry.mu.RUnlock(); if !exists { return nil, fmt.Errorf(...) };
\* otherwise factory(cfg) is entered
GetProviderRUnlock(t) ==
    /\ At(t, "GetProvider", "RUnlock")
    /\ mu' = RUnlockMu(t)
    /\ stack' = SetTop(t,
          IF ~Top(t).exists
          THEN [Top(t) EXCEPT
                  !.ret = [provider |-> NoProvider,
                           err |-> "provider not found: " \o Top(t).name],
                  !.pc = "done"]
          ELSE [Top(t) EXCEPT
                  !.invoked = Append(@, <<Top(t).fac, Top(t).cfg>>),
                  !.pc = "call"])
    /\ UNCHANGED <<factories, nCalls, registered, cfgVars, sysVars, runVars, cacheVars>>

\* a GetProvider that wraps the constructor's error
GetProviderReturn_Wrapped(t) ==
    /\ At(t, "GetProvider", "call")
    /\ stack' = SetTop(t, [Top(t) EXCEPT
                  !.ret = LET r == FactoryResult(Top(t).fac, Top(t).cfg)
                          IN IF r.err = NoError THEN r
                             ELSE [r EXCEPT !.err = "failed to create provider: " \o @],
                  !.pc = "done"])
    /\ UNCHANGED <<factories, mu, nCalls, registered, cfgVars, sysVars, runVars, cacheVars>>

\* return factory(cfg): the constructor returns and GetProvider returns its pair
GetProviderReturn(t) ==
    /\ At(t, "GetProvider", "call")
    /\ stack' = SetTop(t, [Top(t) EXCEPT
                  !.ret = FactoryResult(Top(t).fac, Top(t).cfg),
                  !.pc = "done"])
    /\ UNCHANGED <<factories, mu, nCalls, registered, cfgVars, sysVars, runVars, cacheVars>>

(***************************************************************************)
(* ListProviders                                                           *)
(***************************************************************************)
\* the orders in which ranging over a map with key set S may append its keys
RECURSIVE Orders(_)
Orders(S) ==
    IF S = {} THEN {<<>>}
    ELSE UNION { { <<n>> \o rest : rest \in Orders(S \ {n}) } : n \in S }

\* names := make([]string, len(m)): the slice starts with len(m) empty strings
RangeNames_Prefilled(m) ==
    { [i \in 1..Cardinality(DOMAIN m) |-> ""] \o order : order \in Orders(DOMAIN m) }

\* names := make([]string, 0, len(m)); for name := range m { append(names, name) }
RangeNames(m) == Orders(DOMAIN m)

\* defaultRegistry.mu.RLock(); the loop over the map
ListProvidersRLock(t) ==
    /\ At(t, "ListProviders", "RLock")
    /\ CanRLock
    /\ mu' = RLockMu(t)
    /\ \E order \in RangeNames(factories) :
         stack' = SetTop(t, [Top(t) EXCEPT !.names = order, !.pc = "RUnlock"])
    /\ UNCHANGED <<factories, nCalls, registered, cfgVars, sysVars, runVars, cacheVars>>

\* defer defaultRegistry.mu.RUnlock(); return names
ListProvidersRUnlock(t) ==
    /\ At(t, "ListProviders", "RUnlock")
    /\ mu' = RUnlockMu(t)
    /\ stack' = SetTop(t, [Top(t) EXCEPT !.pc = "done"])
    /\ UNCHANGED <<factories, nCalls, registered, cfgVars, sysVars, runVars, cacheVars>>

(***************************************************************************)
(* IsRegistered                                                            *)
(***************************************************************************)
\* defaultRegistry.mu.RLock(); _, exists := defaultRegistry.factories[name]
IsRegisteredRLock(t) ==
    /\ At(t, "IsRegistered", "RLock")
    /\ CanRLock
    /\ mu' = RLockMu(t)
    /\ stack' = SetTop(t, [Top(t) EXCEPT
                  !.exists = Top(t).name \in DOMAIN factories,
                  !.pc = "RUnlock"])
    /\ UNCHANGED <<factories, nCalls, registered, cfgVars, sysVars, runVars, cacheVars>>

\* defer defaultRegistry.mu.RUnlock(); return exists
IsRegisteredRUnlock(t) ==
    /\ At(t, "IsRegistered", "RUnlock")
    /\ mu' = RUnlockMu(t)
    /\ stack' = SetTop(t, [Top(t) EXCEPT !.pc = "done"])
    /\ UNCHANGED <<factories, nCalls, registered, cfgVars, sysVars, runVars, cacheVars>>

(***************************************************************************)
(* The registry specification                                              *)
(***************************************************************************)
\* var appConfig *config.Config before loadConfig has run
NoConfig == Nil
NoCall == [op |-> "none"]
\* no environment variable is set, and neither config file exists
NoEnviron == << >>
NoFiles == [default |-> [status |-> "missing"], given |-> [status |-> "missing"]]

\* no command is running and no azure Client is in use
NoProcess == [pc |-> "none"]
NoOutput == [stdout |-> << >>, stderr |-> << >>, clipboard |-> << >>,
             exited |-> FALSE, code |-> 0]
NoBackend == [nil |-> TRUE]
NoClient == [nil |-> TRUE]
NoGetting == [nil |-> TRUE]
Idle ==
    /\ proc = NoProcess
    /\ io = NoOutput
    /\ backend = NoBackend
    /\ azClient = NoClient
    /\ getting = NoGetting

RegInit ==
    /\ factories = <<>>
    /\ mu = [w |-> NoThread, writing |-> FALSE, readers |-> [u \in Threads |-> 0]]
    /\ stack = [u \in Threads |-> <<>>]
    /\ nCalls = 0
    /\ registered = {}

Init ==
    /\ RegInit
    /\ Idle
    /\ appConfig = NoConfig
    /\ res = NoCall
    /\ environ = NoEnviron
    /\ fs = NoFiles

Step(t) ==
    \/ Call(t)
    \/ ConstructorCall(t)
    \/ ConstructorResume(t)
    \/ RegisterLock(t)
    \/ RegisterWrite(t)
    \/ RegisterUnlock(t)
    \/ GetProviderRLock(t)
    \/ GetProviderRUnlock(t)
    \/ GetProviderReturn(t)
    \/ ListProvidersRLock(t)
    \/ ListProvidersRUnlock(t)
    \/ IsRegisteredRLock(t)
    \/ IsRegisteredRUnlock(t)

Next == \E t \in Threads : Step(t)

Spec == Init /\ [][Next]_vars

\* what a goroutine does once it is inside a call: the Go scheduler runs every
\* runnable goroutine, and a constructor that was entered returns
Work(t) ==
    \/ ConstructorResume(t)
    \/ RegisterLock(t)
    \/ RegisterWrite(t)
    \/ RegisterUnlock(t)
    \/ GetProviderRLock(t)
    \/ GetProviderRUnlock(t)
    \/ GetProviderReturn(t)
    \/ ListProvidersRLock(t)
    \/ ListProvidersRUnlock(t)
    \/ IsRegisteredRLock(t)
    \/ IsRegisteredRUnlock(t)

LockCall(t) == CallWith(t, LockCallArgs)
LockConstructorCall(t) == ConstructorCallWith(t, LockCallArgs)

FairNext ==
    \E t \in Threads :
        \/ LockCall(t)
        \/ LockConstructorCall(t)
        \/ Work(t)

\* the registry under fair scheduling of the goroutines
FairSpec == Init /\ [][FairNext]_vars /\ \A t \in Threads : WF_vars(Work(t))

(***************************************************************************)
(* Properties of the registry                                              *)
(***************************************************************************)
AllFrames == UNION { { stack[t][i] : i \in 1..Len(stack[t]) } : t \in Threads }
FramesOf(op) == { fr \in AllFrames : fr.op = op }
Range(seq) == { seq[i] : i \in 1..Len(seq) }
NotFound(name) == "provider not found: " \o name

\* the goroutine is inside a registry call that has not returned to it
InCall(t) == Depth(t) > 1 \/ (Depth(t) = 1 /\ Top(t).pc # "done")

\* the goroutine waits for the mutex
Blocked(t) ==
    /\ Depth(t) > 0
    /\ \/ Top(t).pc = "Lock" /\ ~CanLock
       \/ Top(t).pc = "LockWait" /\ ~CanWrite
       \/ Top(t).pc = "RLock" /\ ~CanRLock

\* the step is one of the innermost call of goroutine t, which is at pc in op
StepOf(t, op, pcs) ==
    /\ Depth(t) > 0
    /\ Top(t).op = op
    /\ Top(t).pc \in pcs
    /\ Len(stack'[t]) = Depth(t)
    /\ stack'[t][Depth(t)].pc # Top(t).pc

\* the locks a goroutine's frames hold: a read lock from the lookup to RUnlock,
\* the writers' mutex from Lock to Unlock
ReadHolds(t) == Cardinality({ i \in 1..Len(stack[t]) : stack[t][i].pc = "RUnlock" })
WriteHolds(t) == \E i \in 1..Len(stack[t]) : stack[t][i].pc \in {"LockWait", "Unlock"}
Holds(t) == mu.readers[t] > 0 \/ mu.w = t

\* C1: a GetProvider(name, s) entered after Register(name, f) stored a
\* constructor finds one, invokes exactly one constructor, exactly once, with
\* exactly s, that constructor being one stored under the name (f itself when
\* no other Register of the name intervenes), and returns the constructor's
\* (provider, error) pair unchanged.
C1_InvokesOnceWithSettings ==
    \A fr \in FramesOf("GetProvider") :
        (fr.pc = "done" /\ fr.regAtStart) =>
            /\ fr.exists
            /\ fr.fac \in fr.allowed
            /\ fr.invoked = << <<fr.fac, fr.cfg>> >>
            /\ fr.ret = FactoryResult(fr.fac, fr.cfg)

C1_Witness ==
    \E fr \in FramesOf("GetProvider") :
        /\ fr.pc = "done" /\ fr.regAtStart /\ fr.cfg = "s1"
        /\ fr.fac = "F_strict" /\ fr.allowed = {"F_strict"}
        /\ fr.ret = [provider |-> [factory |-> "F_strict", cfg |-> "s1"], err |-> NoError]

\* C2: a GetProvider(name, s) whose name no Register has stored by the time
\* of the lookup returns (nil, "provider not found: <name>") for every s, nil
\* included, invokes no constructor, and no step of GetProvider changes the
\* mapping.
C2_Inv ==
    \A fr \in FramesOf("GetProvider") :
        (fr.pc = "done" /\ (fr.name \notin registered \/ fr.allowed = {})) =>
            /\ fr.ret = [provider |-> NoProvider, err |-> NotFound(fr.name)]
            /\ fr.invoked = <<>>

C2_UnregisteredNotFound ==
    /\ []C2_Inv
    /\ [][\A t \in Threads :
            StepOf(t, "GetProvider", {"RLock", "RUnlock", "call"}) =>
                factories' = factories]_vars

C2_Witness ==
    \E fr \in FramesOf("GetProvider") :
        /\ fr.pc = "done" /\ fr.name \notin registered /\ fr.cfg = "nil"
        /\ registered # {}

\* C3: Register always stores: the step that writes the map leaves the name
\* bound to the constructor passed and every other name as it was, whatever
\* was stored before (last write wins), and a finished Register has stored its
\* name; the constructor a GetProvider invokes is one that was the name's
\* entry when the GetProvider was entered or was stored after that, never one
\* that had been replaced before.
C3_Inv ==
    /\ \A fr \in FramesOf("GetProvider") :
          \A k \in 1..Len(fr.invoked) : fr.invoked[k][1] \in fr.allowed
    /\ \A fr \in FramesOf("Register") :
          fr.pc \in {"Unlock", "done"} =>
              fr.name \in DOMAIN factories /\ fr.ret.err = NoError

C3_LastWriteWins ==
    /\ []C3_Inv
    /\ [][\A t \in Threads :
            StepOf(t, "Register", {"LockWait"}) =>
                /\ DOMAIN factories' = DOMAIN factories \cup {Top(t).name}
                /\ factories'[Top(t).name] = Top(t).factory
                /\ \A n \in DOMAIN factories \ {Top(t).name} :
                      factories'[n] = factories[n]]_vars

\* a name registered twice with different constructors, and a GetProvider
\* entered after the second Register that invoked the second constructor
C3_Witness ==
    \E fr \in FramesOf("GetProvider"), t \in Threads :
        /\ fr.pc = "done" /\ fr.name = "azure"
        /\ fr.invoked = << <<"F_strict", fr.cfg>> >>
        /\ fr.allowed = {"F_strict"}
        /\ nCalls = 3
        /\ Depth(t) = 1 /\ Top(t).op = "Register" /\ Top(t).pc = "done"
        /\ Top(t).name = "azure" /\ Top(t).factory = "F_strict"

\* C4: in no reachable state are all the goroutines that are inside a call
\* waiting for the mutex (no deadlock); a GetProvider entered after its name
\* was registered finds the constructor; and under fair scheduling every call
\* returns.
C4_NoStuck ==
    (\E t \in Threads : InCall(t)) => (\E t \in Threads : InCall(t) /\ ~Blocked(t))

C4_Found ==
    \A fr \in FramesOf("GetProvider") :
        (fr.regAtStart /\ fr.pc \in {"RUnlock", "call", "done"}) =>
            fr.exists /\ fr.ret.err # NotFound(fr.name)

C4_NoDeadlockAllReturn ==
    /\ [](C4_NoStuck /\ C4_Found)
    /\ \A t \in Threads : InCall(t) ~> ~InCall(t)

\* two Registers of distinct names were in progress together, and a
\* GetProvider for one of the names has returned its provider
C4_Witness ==
    /\ nCalls = 3
    /\ DOMAIN factories = {"azure", "hashicorp"}
    /\ \E t \in Threads :
          /\ Depth(t) = 1 /\ Top(t).op = "GetProvider" /\ Top(t).pc = "done"
          /\ Top(t).regAtStart /\ Top(t).ret.err = NoError
    /\ \E t \in Threads :
          Depth(t) = 1 /\ Top(t).op = "Register" /\ Top(t).pc = "done"

\* C5: every lock held is held by a frame between its lock and its unlock, so
\* a GetProvider whose constructor is running holds none; whenever a
\* goroutine waits for the mutex while another goroutine's constructor is
\* running, it waits for a lock held by a frame other than that GetProvider.
C5_NoLockDuringConstructor ==
    /\ \A t \in Threads :
          /\ mu.readers[t] = ReadHolds(t)
          /\ (mu.w = t) = WriteHolds(t)
    /\ \A t \in Threads :
          At(t, "GetProvider", "call") => ~Holds(t)
    /\ \A t \in Threads :
          (Blocked(t) /\ \E u \in Threads : At(u, "GetProvider", "call")) =>
              \E v \in Threads : Holds(v) /\ ~At(v, "GetProvider", "call")

\* a constructor is running in one goroutine while another goroutine's
\* Register holds the write lock it acquired meanwhile
C5_Witness ==
    \E t, u \in Threads :
        /\ t # u
        /\ At(t, "GetProvider", "call")
        /\ At(u, "Register", "Unlock")
        /\ mu.w = u /\ mu.writing

\* C6: while ListProviders holds the read lock, the names it collected are
\* exactly the names registered so far, each once; IsRegistered's and
\* GetProvider's lookups answer whether the name is among them, and
\* GetProvider fails with provider-not-found exactly when its lookup did not
\* find the name; ListProviders and IsRegistered invoke no constructor; the
\* mapping holds exactly the names registered, and only the writing step of a
\* Register changes it, never removing a name.
C6_Inv ==
    /\ DOMAIN factories = registered
    /\ \A fr \in FramesOf("ListProviders") :
          /\ fr.invoked = <<>>
          /\ fr.pc = "RUnlock" =>
                Len(fr.names) = Cardinality(registered) /\ Range(fr.names) = registered
          /\ fr.pc = "done" =>
                Len(fr.names) = Cardinality(Range(fr.names))
                /\ Range(fr.names) \subseteq registered
    /\ \A fr \in FramesOf("IsRegistered") :
          /\ fr.invoked = <<>>
          /\ fr.pc = "RUnlock" => (fr.exists = (fr.name \in registered))
          /\ (fr.pc = "done" /\ fr.exists) => fr.name \in registered
    /\ \A fr \in FramesOf("GetProvider") :
          /\ fr.pc = "RUnlock" => (fr.exists = (fr.name \in registered))
          /\ fr.pc = "done" => ((fr.ret.err = NotFound(fr.name)) = ~fr.exists)

C6_NamesExactlyRegistered ==
    /\ []C6_Inv
    /\ [][factories' # factories =>
            /\ \E t \in Threads : StepOf(t, "Register", {"LockWait"})
            /\ DOMAIN factories \subseteq DOMAIN factories']_vars

\* both names are registered and a ListProviders has returned both
C6_Witness ==
    \E fr \in FramesOf("ListProviders") :
        /\ fr.pc = "done"
        /\ Range(fr.names) = {"azure", "hashicorp"}
        /\ Len(fr.names) = 2

(***************************************************************************)
(* Configuration resolver: instance selection (internal/config/helpers.go) *)
(***************************************************************************)
NoInstance == Nil

\* values of the instances' fields
InstanceNames == {"prod", "dev"}
SubscriptionIDs == {"sub-1"}
Addresses == {"https://vault:8200"}
Tokens == {"tok-1"}
Namespaces == {""}
\* names asked for: "staging" is the name of no instance
RequestNames == InstanceNames \cup {"staging"}

\* type AzureInstance struct { Name, SubscriptionID string; Default bool }
AzureInstances ==
    [Name : InstanceNames, SubscriptionID : SubscriptionIDs, Default : BOOLEAN]

\* type HashicorpInstance struct { Name, Address, Token, Namespace string; Default bool }
HashicorpInstances ==
    [Name : InstanceNames, Address : Addresses, Token : Tokens,
     Namespace : Namespaces, Default : BOOLEAN]

SeqsUpTo(S, n) == UNION { [1..k -> S] : k \in 0..n }

\* type AzureConfig struct { Enabled bool; Instances []AzureInstance }, or nil
AzureConfigs ==
    [Enabled : BOOLEAN, Instances : SeqsUpTo(AzureInstances, MaxInstances)] \cup {Nil}

\* type HashicorpConfig struct { Enabled bool; Instances []HashicorpInstance }, or nil
HashicorpConfigs ==
    [Enabled : BOOLEAN, Instances : SeqsUpTo(HashicorpInstances, MaxInstances)]
        \cup {Nil}

\* type Config struct { ...; Providers Providers; ... }
Configs == [Providers : [Azure : AzureConfigs, Hashicorp : HashicorpConfigs]]

\* for _, inst := range instances { if inst.Name == name { return &inst, nil } }:
\* the index of the instance returned, 0 when the loop ends
RECURSIVE IndexByName(_, _, _)
IndexByName(instances, name, i) ==
    IF i > Len(instances) THEN 0
    ELSE IF instances[i].Name = name THEN i
    ELSE IndexByName(instances, name, i + 1)

\* for _, inst := range instances { if inst.Default { return &inst, nil } }
RECURSIVE IndexOfDefault(_, _)
IndexOfDefault(instances, i) ==
    IF i > Len(instances) THEN 0
    ELSE IF instances[i].Default THEN i
    ELSE IndexOfDefault(instances, i + 1)

Found(inst) == [inst |-> inst, err |-> NoError]
Failed(msg) == [inst |-> NoInstance, err |-> msg]

\* a lookup by name that falls back to the first instance
GetAzureInstance_Fallback(c, name) ==
    IF c.Providers.Azure = Nil
    THEN Failed("azure provider not configured")
    ELSE LET instances == c.Providers.Azure.Instances
             i == IndexByName(instances, name, 1)
         IN IF i # 0 THEN Found(instances[i])
            ELSE IF Len(instances) > 0 THEN Found(instances[1])
            ELSE Failed("azure instance '" \o name \o "' not found")

GetAzureInstance(c, name) ==
    IF c.Providers.Azure = Nil
    THEN Failed("azure provider not configured")
    ELSE LET instances == c.Providers.Azure.Instances
             i == IndexByName(instances, name, 1)
         IN IF i # 0 THEN Found(instances[i])
            ELSE Failed("azure instance '" \o name \o "' not found")

\* a default lookup that ignores the default flag
GetDefaultAzureInstance_FirstEntry(c) ==
    IF c.Providers.Azure = Nil
    THEN Failed("azure provider not configured")
    ELSE LET instances == c.Providers.Azure.Instances
         IN IF Len(instances) > 0 THEN Found(instances[1])
            ELSE Failed("no azure instances configured")

GetDefaultAzureInstance(c) ==
    IF c.Providers.Azure = Nil
    THEN Failed("azure provider not configured")
    ELSE LET instances == c.Providers.Azure.Instances
             i == IndexOfDefault(instances, 1)
         IN IF i # 0 THEN Found(instances[i])
            ELSE IF Len(instances) > 0 THEN Found(instances[1])
            ELSE Failed("no azure instances configured")

GetHashicorpInstance(c, name) ==
    IF c.Providers.Hashicorp = Nil
    THEN Failed("hashicorp provider not configured")
    ELSE LET instances == c.Providers.Hashicorp.Instances
             i == IndexByName(instances, name, 1)
         IN IF i # 0 THEN Found(instances[i])
            ELSE Failed("hashicorp instance '" \o name \o "' not found")

\* a default lookup without the first-instance fallback
GetDefaultHashicorpInstance_NoFallback(c) ==
    IF c.Providers.Hashicorp = Nil
    THEN Failed("hashicorp provider not configured")
    ELSE LET instances == c.Providers.Hashicorp.Instances
             i == IndexOfDefault(instances, 1)
         IN IF i # 0 THEN Found(instances[i])
            ELSE Failed("no hashicorp instances configured")

\* a default lookup that answers an empty list with a zero instance
GetDefaultHashicorpInstance_ZeroValue(c) ==
    IF c.Providers.Hashicorp = Nil
    THEN Failed("hashicorp provider not configured")
    ELSE LET instances == c.Providers.Hashicorp.Instances
             i == IndexOfDefault(instances, 1)
         IN IF i # 0 THEN Found(instances[i])
            ELSE IF Len(instances) > 0 THEN Found(instances[1])
            ELSE Found([Name |-> "", Address |-> "", Token |-> "",
                        Namespace |-> "", Default |-> FALSE])

GetDefaultHashicorpInstance(c) ==
    IF c.Providers.Hashicorp = Nil
    THEN Failed("hashicorp provider not configured")
    ELSE LET instances == c.Providers.Hashicorp.Instances
             i == IndexOfDefault(instances, 1)
         IN IF i # 0 THEN Found(instances[i])
            ELSE IF Len(instances) > 0 THEN Found(instances[1])
            ELSE Failed("no hashicorp instances configured")

\* the resolver calls: res records the call and the (instance, error) returned
Returned(op, kind, name, r) ==
    [op |-> op, kind |-> kind, name |-> name, inst |-> r.inst, err |-> r.err]

CallGetAzureInstance ==
    /\ \E name \in RequestNames :
         res' = Returned("GetInstance", "Azure", name, GetAzureInstance(appConfig, name))
    /\ UNCHANGED <<appConfig, regVars, sysVars, runVars, cacheVars>>

CallGetDefaultAzureInstance ==
    /\ res' = Returned("GetDefaultInstance", "Azure", "", GetDefaultAzureInstance(appConfig))
    /\ UNCHANGED <<appConfig, regVars, sysVars, runVars, cacheVars>>

CallGetHashicorpInstance ==
    /\ \E name \in RequestNames :
         res' = Returned("GetInstance", "Hashicorp", name,
                         GetHashicorpInstance(appConfig, name))
    /\ UNCHANGED <<appConfig, regVars, sysVars, runVars, cacheVars>>

CallGetDefaultHashicorpInstance ==
    /\ res' = Returned("GetDefaultInstance", "Hashicorp", "",
                       GetDefaultHashicorpInstance(appConfig))
    /\ UNCHANGED <<appConfig, regVars, sysVars, runVars, cacheVars>>

InitConfig ==
    /\ RegInit
    /\ Idle
    /\ appConfig \in Configs
    /\ res = NoCall
    /\ environ = NoEnviron
    /\ fs = NoFiles

NextConfig ==
    \/ CallGetAzureInstance
    \/ CallGetDefaultAzureInstance
    \/ CallGetHashicorpInstance
    \/ CallGetDefaultHashicorpInstance

SpecConfig == InitConfig /\ [][NextConfig]_vars

(***************************************************************************)
(* Properties of instance selection                                        *)
(***************************************************************************)
\* the provider block of the kind the last call was about, and its list
Block == appConfig.Providers[res.kind]
Configured == Block # Nil
Instances == Block.Instances
Flagged == { i \in 1..Len(Instances) : Instances[i].Default }
Named(name) == { i \in 1..Len(Instances) : Instances[i].Name = name }
Least(S) == CHOOSE i \in S : \A j \in S : i <= j

\* C7: when some instance of the kind is flagged default, GetDefaultInstance
\* returns, without error, the flagged instance of least index: the only one
\* flagged wherever it stands, the earliest when several are.
C7_DefaultIsFirstFlagged ==
    (res.op = "GetDefaultInstance" /\ Configured /\ Flagged # {}) =>
        res.err = NoError /\ res.inst = Instances[Least(Flagged)]

\* the only flagged instance is the second of two
C7_Witness ==
    /\ res.op = "GetDefaultInstance" /\ res.kind = "Azure" /\ Configured
    /\ Flagged = {2}
    /\ res.inst = Instances[2] /\ Instances[1] # Instances[2]

\* C8: when the kind's list is not empty and none of its instances is flagged
\* default, GetDefaultInstance returns, without error, the first of the list.
C8_NoDefaultFirstEntry ==
    (res.op = "GetDefaultInstance" /\ Configured /\ Flagged = {} /\ Len(Instances) > 0) =>
        res.err = NoError /\ res.inst = Instances[1]

C8_Witness ==
    /\ res.op = "GetDefaultInstance" /\ res.kind = "Hashicorp" /\ Configured
    /\ Len(Instances) = 2 /\ Flagged = {}
    /\ Instances[1].Name # Instances[2].Name
    /\ res.inst = Instances[1]

\* C9: GetDefaultInstance returns an error, and then no instance, exactly when
\* the kind's provider block is nil or its list is empty; otherwise it returns
\* an element of the list.
C9_DefaultFailsIffEmpty ==
    res.op = "GetDefaultInstance" =>
        /\ (res.err # NoError) = (~Configured \/ Len(Instances) = 0)
        /\ res.err # NoError => res.inst = NoInstance
        /\ res.err = NoError => res.inst \in Range(Instances)

\* the block is there, enabled, and its list is empty
C9_Witness ==
    /\ res.op = "GetDefaultInstance" /\ res.kind = "Hashicorp" /\ Configured
    /\ Block.Enabled /\ Len(Instances) = 0
    /\ res.err = "no hashicorp instances configured"

\* C10: GetInstance returns, without error, the instance of least index whose
\* name is the name asked for, whatever the default flags, and returns an
\* error and no instance exactly when the block is nil or no instance has the
\* name; an instance returned has the name asked for.
C10_GetInstanceExactName ==
    res.op = "GetInstance" =>
        /\ (res.err # NoError) = (~Configured \/ Named(res.name) = {})
        /\ res.err # NoError => res.inst = NoInstance
        /\ res.err = NoError =>
              res.inst = Instances[Least(Named(res.name))] /\ res.inst.Name = res.name

\* two instances have the name asked for, the second is the one flagged
\* default, and the first is returned
C10_Witness ==
    /\ res.op = "GetInstance" /\ res.kind = "Azure" /\ Configured
    /\ Named(res.name) = {1, 2}
    /\ ~Instances[1].Default /\ Instances[2].Default
    /\ res.inst = Instances[1]

(***************************************************************************)
(* Environment-variable references in strings                              *)
(* (internal/config: envVarPattern, expandEnvVars)                         *)
(* Go strings are TLA+ strings; Char(s, i) is s[i-1:i].                    *)
(***************************************************************************)
\* longest string given to expandEnvVars
MaxTextLen == 4

Char(s, i) == SubSeq(s, i, i)

\* the strings over alphabet of length at most n
RECURSIVE StringsUpTo(_, _)
StringsUpTo(alphabet, n) ==
    IF n = 0 THEN {""}
    ELSE LET shorter == StringsUpTo(alphabet, n - 1)
         IN shorter \cup { s \o c : s \in shorter, c \in alphabet }

\* os.Getenv: the value of the variable, "" when it is not set
Getenv(key) == IF key \in DOMAIN environ THEN environ[key] ELSE ""

UpperLetters == "ABCDEFGHIJKLMNOPQRSTUVWXYZ"
LowerLetters == "abcdefghijklmnopqrstuvwxyz"
Digits == "0123456789"
OneOf(c, chars) == \E i \in 1..Len(chars) : Char(chars, i) = c

\* the character classes [A-Z_] and [A-Z0-9_] of envVarPattern
IsNameStart(c) == OneOf(c, UpperLetters) \/ c = "_"
IsNameChar(c) == IsNameStart(c) \/ OneOf(c, Digits)

\* the index of the first "}" of s at or after i, 0 when there is none
RECURSIVE FirstClose(_, _)
FirstClose(s, i) ==
    IF i > Len(s) THEN 0
    ELSE IF Char(s, i) = "}" THEN i
    ELSE FirstClose(s, i + 1)

\* the end of the longest run of [A-Z0-9_] that has s[i] in it
RECURSIVE NameEnd(_, _)
NameEnd(s, i) ==
    IF i + 1 <= Len(s) /\ IsNameChar(Char(s, i + 1)) THEN NameEnd(s, i + 1) ELSE i

\* envVarPattern = \$\{([^}]+)\}|\$([A-Z_][A-Z0-9_]*) tried at index i of s:
\* the index of the last character of the match, 0 when there is no match
\* at i.  The first alternative is preferred; both repetitions are greedy.
envVarPattern(s, i) ==
    IF Char(s, i) # "$" \/ i + 1 > Len(s) THEN 0
    ELSE IF Char(s, i + 1) = "{"
    THEN LET close == FirstClose(s, i + 2)
         IN IF close >= i + 3 THEN close ELSE 0
    ELSE IF IsNameStart(Char(s, i + 1)) THEN NameEnd(s, i + 1)
    ELSE 0

\* a replacement that takes the value of every variable that is set, the
\* empty one too
ExpandMatch_IfSet(match) ==
    LET varName == IF SubSeq(match, 1, 2) = "${"
                   THEN SubSeq(match, 3, Len(match) - 1)
                   ELSE SubSeq(match, 2, Len(match))
    IN IF varName \in DOMAIN environ THEN environ[varName] ELSE match

\* a replacement that takes the value of every reference, empty or not
ExpandMatch_AnyValue(match) ==
    LET varName == IF SubSeq(match, 1, 2) = "${"
                   THEN SubSeq(match, 3, Len(match) - 1)
                   ELSE SubSeq(match, 2, Len(match))
    IN Getenv(varName)

\* the function expandEnvVars gives to ReplaceAllStringFunc
ExpandMatch(match) ==
    LET varName == IF SubSeq(match, 1, 2) = "${"
                   THEN SubSeq(match, 3, Len(match) - 1)
                   ELSE SubSeq(match, 2, Len(match))
        value == Getenv(varName)
    IN IF value # "" THEN value ELSE match

\* regexp.ReplaceAllStringFunc from index i on: the matches are found from
\* left to right without overlap, and a replacement is not searched again
RECURSIVE ReplaceAllStringFunc(_, _)
ReplaceAllStringFunc(s, i) ==
    IF i > Len(s) THEN ""
    ELSE LET last == envVarPattern(s, i)
         IN IF last = 0
            THEN Char(s, i) \o ReplaceAllStringFunc(s, i + 1)
            ELSE ExpandMatch(SubSeq(s, i, last)) \o ReplaceAllStringFunc(s, last + 1)

expandEnvVars(s) == ReplaceAllStringFunc(s, 1)

\* the characters of the strings expanded: the three of the token syntax, a
\* name character that can start a name, one that cannot, and a lowercase
\* letter, which is in neither class
TextAlphabet == {"$", "{", "}", "A", "1", "a"}
Texts == StringsUpTo(TextAlphabet, MaxTextLen)
\* the variables that may be set, and the values they may have: the empty
\* string, a plain value, and a value that is itself a reference
TextVarNames == {"A", "a"}
TextVarValues == {"", "v", "$A"}
Environs(names, values) == UNION { [set -> values] : set \in SUBSET names }

\* one call of expandEnvVars in the environment of the process
CallExpandEnvVars ==
    /\ res = NoCall
    /\ \E s \in Texts :
         res' = [op |-> "expandEnvVars", s |-> s, out |-> expandEnvVars(s)]
    /\ UNCHANGED <<appConfig, regVars, sysVars, runVars, cacheVars>>

InitExpand ==
    /\ RegInit
    /\ Idle
    /\ appConfig = NoConfig
    /\ res = NoCall
    /\ environ \in Environs(TextVarNames, TextVarValues)
    /\ fs = NoFiles

NextExpand == CallExpandEnvVars

SpecExpand == InitExpand /\ [][NextExpand]_vars

(***************************************************************************)
(* Properties of expandEnvVars                                             *)
(***************************************************************************)
\* s[i..j] is a ${NAME} reference: "${", one or more characters other than
\* "}", and "}"
IsBraceToken(s, i, j) ==
    /\ i + 3 <= j /\ j <= Len(s)
    /\ SubSeq(s, i, i + 1) = "${"
    /\ Char(s, j) = "}"
    /\ \A k \in (i + 2)..(j - 1) : Char(s, k) # "}"

\* s[i..j] is a bare $NAME reference: "$" and a name that the next character
\* does not continue, where no ${NAME} reference starts
IsBareToken(s, i, j) ==
    /\ i + 1 <= j /\ j <= Len(s)
    /\ Char(s, i) = "$"
    /\ IsNameStart(Char(s, i + 1))
    /\ \A k \in (i + 2)..j : IsNameChar(Char(s, k))
    /\ j < Len(s) => ~IsNameChar(Char(s, j + 1))

IsToken(s, i, j) == IsBraceToken(s, i, j) \/ IsBareToken(s, i, j)

\* the tokens of s: the references that do not start inside an earlier token
TokensOf(s) ==
    LET refs == { ij \in (1..Len(s)) \X (1..Len(s)) : IsToken(s, ij[1], ij[2]) }
    IN CHOOSE T \in SUBSET refs :
          \A ij \in refs :
              ij \in T <=> ~\E t \in T : t[1] < ij[1] /\ ij[1] <= t[2]

\* the name a token refers to
TokenName(token) ==
    IF Char(token, 2) = "{" THEN SubSeq(token, 3, Len(token) - 1)
    ELSE SubSeq(token, 2, Len(token))

IsSetNonEmpty(name) == name \in DOMAIN environ /\ environ[name] # ""

\* what a token is to become
Resolved(token) ==
    IF IsSetNonEmpty(TokenName(token)) THEN environ[TokenName(token)] ELSE token

RECURSIVE Concat(_)
Concat(pieces) == IF pieces = <<>> THEN "" ELSE Head(pieces) \o Concat(Tail(pieces))

\* s with each of its tokens resolved on its own and every other character kept
Expanded(s) ==
    LET T == TokensOf(s)
        piece(k) ==
            IF \E t \in T : t[1] = k
            THEN LET t == CHOOSE t \in T : t[1] = k IN Resolved(SubSeq(s, t[1], t[2]))
            ELSE IF \E t \in T : t[1] < k /\ k <= t[2] THEN ""
            ELSE Char(s, k)
    IN Concat([k \in 1..Len(s) |-> piece(k)])

HasToken(s) == TokensOf(s) # {}

\* C14: expandEnvVars never fails and returns its argument with each ${NAME}
\* or bare $NAME token replaced by the value of the variable NAME when that
\* variable is set and not empty, and left as it is otherwise (a variable not
\* set and one set to the empty string alike); every token is resolved on its
\* own and the text outside the tokens is unchanged.
C14_ExpandEnvVars ==
    res.op = "expandEnvVars" =>
        /\ res.out = Expanded(res.s)
        /\ ~HasToken(res.s) => res.out = res.s
        /\ (\A t \in TokensOf(res.s) : ~IsSetNonEmpty(TokenName(SubSeq(res.s, t[1], t[2]))))
              => res.out = res.s

\* A is set to "v": the token "$A" of "1$Aa" ends before the lowercase "a" and
\* becomes "v"; the characters on both sides of it stay
C14_Witness ==
    /\ res.op = "expandEnvVars"
    /\ res.s = "1$Aa"
    /\ DOMAIN environ = {"A"} /\ environ["A"] = "v"
    /\ res.out = "1va"

(***************************************************************************)
(* Loading the configuration (internal/config: Load, LoadFromFile,         *)
(* setDefaults, substituteEnvVars, validate)                               *)
(*                                                                         *)
(* A config file is missing, unreadable, unparsable, or holds a content:   *)
(* [options, azure, hashicorp], the scalar option keys it sets (as the     *)
(* text of their values) and the instance lists of the two kinds.  viper   *)
(* layers every option key: environment variable, then file, then default. *)
(***************************************************************************)
\* most instances a config file lists, both kinds together
MaxFileInstances == 2
\* most option keys set in a file and in the environment together
MaxSettings == 2

StringKeys == {"fzf.height", "fzf.border"}
BoolKeys == {"fzf.preview", "filters.enabled_only",
             "providers.azure.enabled", "providers.hashicorp.enabled"}
OptionKeys == StringKeys \cup BoolKeys

\* setDefaults: the default of every option key, as text
setDefaults ==
    [key \in OptionKeys |->
        CASE key = "fzf.height" -> "40%"
          [] key = "fzf.border" -> "rounded"
          [] key = "fzf.preview" -> "false"
          [] key = "filters.enabled_only" -> "true"
          [] key = "providers.azure.enabled" -> "true"
          [] key = "providers.hashicorp.enabled" -> "true"]

\* strings.ToUpper and strings.NewReplacer(".", "_") on one character
ToUpper(c) ==
    IF OneOf(c, LowerLetters)
    THEN Char(UpperLetters, CHOOSE i \in 1..Len(LowerLetters) : Char(LowerLetters, i) = c)
    ELSE c
ReplaceDot(c) == IF c = "." THEN "_" ELSE c

RECURSIVE MapChars(_, _)
MapChars(s, i) ==
    IF i > Len(s) THEN ""
    ELSE ReplaceDot(ToUpper(Char(s, i))) \o MapChars(s, i + 1)

\* the environment variable AutomaticEnv reads for a key, with
\* SetEnvPrefix("SMART_KEYVAULT") and SetEnvKeyReplacer(".", "_")
EnvKeys == [key \in OptionKeys |-> MapChars("SMART_KEYVAULT_" \o key, 1)]
EnvKey(key) == EnvKeys[key]

\* viper's lookup of an option key, with the file layer ahead of the environment
ViperGet_FileFirst(content, key) ==
    IF key \in DOMAIN content.options THEN content.options[key]
    ELSE IF EnvKey(key) \in DOMAIN environ /\ environ[EnvKey(key)] # ""
    THEN environ[EnvKey(key)]
    ELSE setDefaults[key]

\* viper's lookup of an option key: the environment variable when it is set
\* and not empty (AllowEmptyEnv is off), else the file's value, else the default
ViperGet(content, key) ==
    IF EnvKey(key) \in DOMAIN environ /\ environ[EnvKey(key)] # ""
    THEN environ[EnvKey(key)]
    ELSE IF key \in DOMAIN content.options THEN content.options[key]
    ELSE setDefaults[key]

\* strconv.ParseBool, which decodes the text of a bool option
TrueTexts == {"1", "t", "T", "TRUE", "true", "True"}
FalseTexts == {"0", "f", "F", "FALSE", "false", "False"}
IsBool(text) == text \in TrueTexts \cup FalseTexts
ParseBool(text) == text \in TrueTexts

\* what a file with nothing in it holds; also what viper holds when
\* ReadInConfig found no file
EmptyContent == [options |-> << >>, azure |-> << >>, hashicorp |-> << >>]

MissingFile == [status |-> "missing"]
UnreadableFile == [status |-> "unreadable"]
UnparsableFile == [status |-> "unparsable"]
FileOf(content) == [status |-> "ok", content |-> content]

\* v.Unmarshal(&cfg): the settings of all keys decoded into a Config.  Every
\* provider block is there, because its enabled key has a default.
Unmarshal(content) ==
    IF \E key \in BoolKeys : ~IsBool(ViperGet(content, key))
    THEN [cfg |-> NoConfig, err |-> "failed to unmarshal config: strconv.ParseBool: invalid syntax"]
    ELSE [cfg |->
             [Providers |->
                 [Azure |->
                     [Enabled |-> ParseBool(ViperGet(content, "providers.azure.enabled")),
                      Instances |-> content.azure],
                  Hashicorp |->
                     [Enabled |-> ParseBool(ViperGet(content, "providers.hashicorp.enabled")),
                      Instances |-> content.hashicorp]],
              FZF |-> [Height |-> ViperGet(content, "fzf.height"),
                       Border |-> ViperGet(content, "fzf.border"),
                       Preview |-> ParseBool(ViperGet(content, "fzf.preview"))],
              Filters |-> [EnabledOnly |-> ParseBool(ViperGet(content, "filters.enabled_only"))]],
          err |-> NoError]

\* the loop bodies of substituteEnvVars
ExpandAzureInstance(inst) ==
    [inst EXCEPT !.SubscriptionID = expandEnvVars(inst.SubscriptionID)]

ExpandHashicorpInstance(inst) ==
    [inst EXCEPT !.Address = expandEnvVars(inst.Address),
                 !.Token = expandEnvVars(inst.Token),
                 !.Namespace = expandEnvVars(inst.Namespace)]

\* a substitution that leaves the instances of a kind that is not enabled alone
substituteEnvVars_EnabledOnly(cfg) ==
    [cfg EXCEPT
        !.Providers.Azure =
            IF @ = Nil \/ ~@.Enabled THEN @
            ELSE [@ EXCEPT !.Instances =
                     [i \in 1..Len(@) |-> ExpandAzureInstance(@[i])]],
        !.Providers.Hashicorp =
            IF @ = Nil \/ ~@.Enabled THEN @
            ELSE [@ EXCEPT !.Instances =
                     [i \in 1..Len(@) |-> ExpandHashicorpInstance(@[i])]]]

\* substituteEnvVars: the Config after the substitution (the error is always nil)
substituteEnvVars(cfg) ==
    [cfg EXCEPT
        !.Providers.Azure =
            IF @ = Nil THEN @
            ELSE [@ EXCEPT !.Instances =
                     [i \in 1..Len(@) |-> ExpandAzureInstance(@[i])]],
        !.Providers.Hashicorp =
            IF @ = Nil THEN @
            ELSE [@ EXCEPT !.Instances =
                     [i \in 1..Len(@) |-> ExpandHashicorpInstance(@[i])]]]

\* fmt's %d of a list index
Itoa(n) == Char(Digits, n + 1)

\* for i, inst := range cfg.Providers.Azure.Instances, from the i-th on
RECURSIVE validateAzureInstances(_, _)
validateAzureInstances(instances, i) ==
    IF i > Len(instances) THEN NoError
    ELSE IF instances[i].Name = ""
    THEN "azure instance at index " \o Itoa(i - 1) \o " has no name"
    ELSE IF instances[i].SubscriptionID = ""
    THEN "azure instance '" \o instances[i].Name \o "' has no subscription_id"
    ELSE validateAzureInstances(instances, i + 1)

\* a check of the store's instances that does not look at the token
RECURSIVE validateHashicorpInstances_NoToken(_, _)
validateHashicorpInstances_NoToken(instances, i) ==
    IF i > Len(instances) THEN NoError
    ELSE IF instances[i].Name = ""
    THEN "hashicorp instance at index " \o Itoa(i - 1) \o " has no name"
    ELSE IF instances[i].Address = ""
    THEN "hashicorp instance '" \o instances[i].Name \o "' has no address"
    ELSE validateHashicorpInstances_NoToken(instances, i + 1)

\* for i, inst := range cfg.Providers.Hashicorp.Instances, from the i-th on
RECURSIVE validateHashicorpInstances(_, _)
validateHashicorpInstances(instances, i) ==
    IF i > Len(instances) THEN NoError
    ELSE IF instances[i].Name = ""
    THEN "hashicorp instance at index " \o Itoa(i - 1) \o " has no name"
    ELSE IF instances[i].Address = ""
    THEN "hashicorp instance '" \o instances[i].Name \o "' has no address"
    ELSE IF instances[i].Token = ""
    THEN "hashicorp instance '" \o instances[i].Name \o "' has no token"
    ELSE validateHashicorpInstances(instances, i + 1)

\* the second half of validate
validateHashicorp(cfg) ==
    IF cfg.Providers.Hashicorp # Nil /\ cfg.Providers.Hashicorp.Enabled
    THEN IF Len(cfg.Providers.Hashicorp.Instances) = 0
         THEN "hashicorp provider is enabled but has no instances configured"
         ELSE validateHashicorpInstances(cfg.Providers.Hashicorp.Instances, 1)
    ELSE NoError

\* a validation that looks at a kind whether it is enabled or not
validate_DisabledToo(cfg) ==
    LET azure == IF Len(cfg.Providers.Azure.Instances) = 0
                 THEN "azure provider is enabled but has no instances configured"
                 ELSE validateAzureInstances(cfg.Providers.Azure.Instances, 1)
    IN IF azure # NoError THEN azure
       ELSE IF Len(cfg.Providers.Hashicorp.Instances) = 0
       THEN "hashicorp provider is enabled but has no instances configured"
       ELSE validateHashicorpInstances(cfg.Providers.Hashicorp.Instances, 1)

\* a validation that accepts an enabled kind without instances
validate_EmptyAllowed(cfg) ==
    LET azure == IF cfg.Providers.Azure # Nil /\ cfg.Providers.Azure.Enabled
                 THEN validateAzureInstances(cfg.Providers.Azure.Instances, 1)
                 ELSE NoError
    IN IF azure # NoError THEN azure
       ELSE IF cfg.Providers.Hashicorp # Nil /\ cfg.Providers.Hashicorp.Enabled
       THEN validateHashicorpInstances(cfg.Providers.Hashicorp.Instances, 1)
       ELSE NoError

\* validate: the first violation found, azure before hashicorp, or nil
validate(cfg) ==
    LET azure == IF cfg.Providers.Azure # Nil /\ cfg.Providers.Azure.Enabled
                 THEN IF Len(cfg.Providers.Azure.Instances) = 0
                      THEN "azure provider is enabled but has no instances configured"
                      ELSE validateAzureInstances(cfg.Providers.Azure.Instances, 1)
                 ELSE NoError
    IN IF azure # NoError THEN azure ELSE validateHashicorp(cfg)

Loaded(cfg) == [cfg |-> cfg, err |-> NoError]
LoadFailed(msg) == [cfg |-> NoConfig, err |-> msg]

\* what Load and LoadFromFile do once the file has been read: unmarshal,
\* substitute, validate
LoadContent(content) ==
    LET u == Unmarshal(content)
    IN IF u.err # NoError THEN u
       ELSE LET cfg == substituteEnvVars(u.cfg)
                err == validate(cfg)
            IN IF err # NoError THEN LoadFailed("invalid configuration: " \o err)
               ELSE Loaded(cfg)

\* Load(): the file of the default directory is optional
Load ==
    IF Getenv("HOME") = ""
    THEN LoadFailed("failed to get user home directory: $HOME is not defined")
    ELSE IF fs.default.status = "missing" THEN LoadContent(EmptyContent)
    ELSE IF fs.default.status # "ok"
    THEN LoadFailed("failed to read config file: " \o fs.default.status)
    ELSE LoadContent(fs.default.content)

\* a LoadFromFile that reads the file of the default directory when the file
\* it was given cannot be read
LoadFromFile_Fallback(configPath) ==
    IF fs.given.status # "ok"
    THEN Load
    ELSE LoadContent(fs.given.content)

\* LoadFromFile(configPath): the file given must be read
LoadFromFile(configPath) ==
    IF fs.given.status # "ok"
    THEN LoadFailed("failed to read config file " \o configPath \o ": " \o fs.given.status)
    ELSE LoadContent(fs.given.content)

\* the instances a file may list: the fields of a valid instance, an empty
\* field, and a field with a reference to the variable A; an instance has at
\* most one field that is not the valid one
ValidAzureInstance == [Name |-> "prod", SubscriptionID |-> "sub-1", Default |-> FALSE]
ValidHashicorpInstance ==
    [Name |-> "prod", Address |-> "https://vault:8200", Token |-> "tok-1",
     Namespace |-> "", Default |-> FALSE]

OneFieldOff(inst, valid) ==
    Cardinality({ f \in DOMAIN inst : inst[f] # valid[f] }) <= 1

AzureFileInstances ==
    { inst \in [Name : {"", "prod", "$A"},
                SubscriptionID : {"", "sub-1", "${A}"},
                Default : {FALSE}] : OneFieldOff(inst, ValidAzureInstance) }

HashicorpFileInstances ==
    { inst \in [Name : {"", "prod", "$A"},
                Address : {"", "https://vault:8200", "https://$A"},
                Token : {"", "tok-1", "${A}"},
                Namespace : {"", "$A"},
                Default : {FALSE}] : OneFieldOff(inst, ValidHashicorpInstance) }

\* the option keys a file with instances may set: it may switch a kind off
EnabledOptions ==
    Environs({"providers.azure.enabled", "providers.hashicorp.enabled"}, {"false"})

\* the values a file and an environment variable may give to an option key
FileTexts ==
    [key \in OptionKeys |->
    CASE key = "fzf.height" -> {"50%"}
      [] key = "fzf.border" -> {"sharp"}
      [] OTHER -> {"true", "false"}]
EnvTexts ==
    [key \in OptionKeys |->
    CASE key = "fzf.height" -> {"", "80%"}
      [] key = "fzf.border" -> {"", "none"}
      [] OTHER -> {"", "true", "0", "yes"}]

\* a file with one valid instance of each kind
SampleContent ==
    [options |-> << >>,
     azure |-> <<ValidAzureInstance>>,
     hashicorp |-> <<ValidHashicorpInstance>>]

\* the ways of giving each key of keys one of its texts
Assignments(keys, texts) ==
    { f \in [keys -> UNION { texts[k] : k \in keys }] : \A k \in keys : f[k] \in texts[k] }

KeySets(n) == { keys \in SUBSET OptionKeys : Cardinality(keys) <= n }

\* the ways of setting at most MaxSettings option keys, in the file or in the
\* environment: [file, env], each a function from the keys it sets
OptionSettings ==
    UNION { UNION { { [file |-> file, env |-> env] :
                        file \in Assignments(fileKeys, FileTexts),
                        env \in Assignments(envKeys, EnvTexts) } :
                    envKeys \in KeySets(MaxSettings - Cardinality(fileKeys)) } :
            fileKeys \in KeySets(MaxSettings) }

Home == "/home/user"
GivenPath == "/tmp/config.yaml"

\* the environment of a process: HOME, and the variables of others
WithHome(others) ==
    [name \in DOMAIN others \cup {"HOME"} |->
        IF name = "HOME" THEN Home ELSE others[name]]

\* the environment that gives the option keys of env their values
OptionEnviron(env) ==
    [name \in { EnvKey(k) : k \in DOMAIN env } |->
        env[CHOOSE k \in DOMAIN env : EnvKey(k) = name]]

CallLoad ==
    /\ res = NoCall
    /\ LET r == Load
       IN res' = [op |-> "Load", path |-> "", cfg |-> r.cfg, err |-> r.err]
    /\ UNCHANGED <<appConfig, regVars, sysVars, runVars, cacheVars>>

CallLoadFromFile ==
    /\ res = NoCall
    /\ LET r == LoadFromFile(GivenPath)
       IN res' = [op |-> "LoadFromFile", path |-> GivenPath, cfg |-> r.cfg, err |-> r.err]
    /\ UNCHANGED <<appConfig, regVars, sysVars, runVars, cacheVars>>

\* a file that lists at most MaxFileInstances instances, in the default
\* directory, at the given path, or at the given path beside another one in the
\* default directory; or a file that cannot be read or parsed in one of the two
\* places; the variable A unset or set
InitLoadInstances ==
    /\ \/ \E azure \in SeqsUpTo(AzureFileInstances, MaxFileInstances) :
           \E hashicorp \in SeqsUpTo(HashicorpFileInstances,
                                     MaxFileInstances - Len(azure)) :
             \E options \in EnabledOptions :
               LET content == [options |-> options, azure |-> azure,
                               hashicorp |-> hashicorp]
               IN fs \in { [default |-> FileOf(content), given |-> MissingFile],
                           [default |-> MissingFile, given |-> FileOf(content)],
                           [default |-> FileOf(SampleContent), given |-> FileOf(content)] }
       \/ fs \in { [default |-> FileOf(SampleContent), given |-> broken] :
                     broken \in {UnreadableFile, UnparsableFile} }
       \/ fs \in { [default |-> broken, given |-> FileOf(SampleContent)] :
                     broken \in {UnreadableFile, UnparsableFile} }
    /\ environ \in { WithHome(others) : others \in Environs({"A"}, TextVarValues) }

\* option keys set in the file and in the environment
InitLoadOptions ==
    \E layers \in OptionSettings :
        /\ environ = WithHome(OptionEnviron(layers.env))
        /\ fs \in { [default |-> default,
                     given |-> FileOf([SampleContent EXCEPT !.options = layers.file])] :
                      default \in {MissingFile,
                                   FileOf([SampleContent EXCEPT !.options = layers.file])} }

InitLoad ==
    /\ RegInit
    /\ Idle
    /\ appConfig = NoConfig
    /\ res = NoCall
    /\ InitLoadInstances \/ InitLoadOptions

NextLoad ==
    \/ CallLoad
    \/ CallLoadFromFile

SpecLoad == InitLoad /\ [][NextLoad]_vars

(***************************************************************************)
(* Properties of loading                                                   *)
(***************************************************************************)
IsLoad == res.op \in {"Load", "LoadFromFile"}
\* the file the call is to read, and what the call had in hand after reading
SourceFile == IF res.op = "Load" THEN fs.default ELSE fs.given
WasRead == IsLoad /\ (SourceFile.status = "ok" \/ (res.op = "Load" /\ SourceFile.status = "missing"))
Content == IF SourceFile.status = "ok" THEN SourceFile.content ELSE EmptyContent

HasPrefix(s, prefix) == Len(s) >= Len(prefix) /\ SubSeq(s, 1, Len(prefix)) = prefix
Contains(s, sub) ==
    \E i \in 1..(Len(s) - Len(sub) + 1) : SubSeq(s, i, i + Len(sub) - 1) = sub

\* the variable of an option key: SMART_KEYVAULT_ and the key, in capitals,
\* with its dots replaced by underscores
OptionVar(key) ==
    CASE key = "fzf.height" -> "SMART_KEYVAULT_FZF_HEIGHT"
      [] key = "fzf.border" -> "SMART_KEYVAULT_FZF_BORDER"
      [] key = "fzf.preview" -> "SMART_KEYVAULT_FZF_PREVIEW"
      [] key = "filters.enabled_only" -> "SMART_KEYVAULT_FILTERS_ENABLED_ONLY"
      [] key = "providers.azure.enabled" -> "SMART_KEYVAULT_PROVIDERS_AZURE_ENABLED"
      [] key = "providers.hashicorp.enabled" -> "SMART_KEYVAULT_PROVIDERS_HASHICORP_ENABLED"

DefaultText(key) ==
    CASE key = "fzf.height" -> "40%"
      [] key = "fzf.border" -> "rounded"
      [] key = "fzf.preview" -> "false"
      [] OTHER -> "true"

\* the text of an option key by layers: the variable if set, else the file's
\* value if present, else the default
LayeredIfSet(key) ==
    IF OptionVar(key) \in DOMAIN environ THEN environ[OptionVar(key)]
    ELSE IF key \in DOMAIN Content.options THEN Content.options[key]
    ELSE DefaultText(key)

\* the same with a variable counted only when it is set to a non-empty value
Layered(key) ==
    IF IsSetNonEmpty(OptionVar(key)) THEN environ[OptionVar(key)]
    ELSE IF key \in DOMAIN Content.options THEN Content.options[key]
    ELSE DefaultText(key)

\* the field of a Config that holds an option key
StringOption(cfg, key) ==
    CASE key = "fzf.height" -> cfg.FZF.Height
      [] key = "fzf.border" -> cfg.FZF.Border
BoolOption(cfg, key) ==
    CASE key = "fzf.preview" -> cfg.FZF.Preview
      [] key = "filters.enabled_only" -> cfg.Filters.EnabledOnly
      [] key = "providers.azure.enabled" -> cfg.Providers.Azure.Enabled
      [] key = "providers.hashicorp.enabled" -> cfg.Providers.Hashicorp.Enabled

Truthy(text) == text \in {"1", "t", "T", "TRUE", "true", "True"}
Falsy(text) == text \in {"0", "f", "F", "FALSE", "false", "False"}

\* the call read its file and decoded every option: it came to validation
Validated == WasRead /\ \A key \in BoolKeys : Truthy(Layered(key)) \/ Falsy(Layered(key))

Kinds == {"azure", "hashicorp"}
KindEnabled(kind) == Truthy(Layered("providers." \o kind \o ".enabled"))
Listed(kind) == Content[kind]

\* the fields validation requires of an instance, in the order it checks them
Required(kind) ==
    IF kind = "azure" THEN <<"name", "subscription_id">>
    ELSE <<"name", "address", "token">>

FieldOf(inst, field) ==
    CASE field = "name" -> inst.Name
      [] field = "subscription_id" -> inst.SubscriptionID
      [] field = "address" -> inst.Address
      [] field = "token" -> inst.Token
      [] field = "namespace" -> inst.Namespace

\* the empty required fields of the listed instances of a kind: <<index, k>>
\* for the k-th required field of the instance at the index
Offences(kind) ==
    { o \in (1..Len(Listed(kind))) \X (1..Len(Required(kind))) :
        FieldOf(Listed(kind)[o[1]], Required(kind)[o[2]]) = "" }

\* the first offence in the order of validation
FirstOffence(kind) ==
    CHOOSE o \in Offences(kind) :
        \A p \in Offences(kind) : o[1] < p[1] \/ (o[1] = p[1] /\ o[2] <= p[2])

\* the error names an instance (by its index when it has no name, by its name
\* otherwise) and the field that is empty
NamesOffence(err, kind, o) ==
    LET field == Required(kind)[o[2]]
    IN IF field = "name"
       THEN /\ Contains(err, kind \o " instance at index " \o Itoa(o[1] - 1))
            /\ Contains(err, "no name")
       ELSE /\ Contains(err, kind \o " instance '" \o Listed(kind)[o[1]].Name \o "'")
            /\ Contains(err, "no " \o field)

Rejected == res.cfg = NoConfig /\ HasPrefix(res.err, "invalid configuration: ")
NamesEmptyKind(err, kind) ==
    Contains(err, kind \o " provider is enabled but has no instances configured")

\* validation of azure, which comes first, finds a violation
AzureFails ==
    KindEnabled("azure") /\ (Len(Listed("azure")) = 0 \/ Offences("azure") # {})

\* C12 as claimed: a load in which a kind is enabled with an empty instance
\* list fails validation with an error whose message names that kind, and
\* returns no Config.
C12_EmptyKindNamed ==
    \A kind \in Kinds :
        (Validated /\ KindEnabled(kind) /\ Len(Listed(kind)) = 0) =>
            Rejected /\ Contains(res.err, kind)

\* C12: a load in which a kind is enabled with an empty instance list fails
\* validation and returns no Config; the message names that kind, except that
\* for hashicorp, when azure is enabled and fails validation first, the message
\* is about azure.
C12_EmptyKindRejected ==
    \A kind \in Kinds :
        (Validated /\ KindEnabled(kind) /\ Len(Listed(kind)) = 0) =>
            /\ Rejected
            /\ IF kind = "hashicorp" /\ AzureFails
               THEN Contains(res.err, "azure") /\ ~Contains(res.err, "hashicorp")
               ELSE NamesEmptyKind(res.err, kind)

\* azure is switched off in the file and hashicorp, enabled by default, lists
\* nothing: the error names hashicorp
C12_Witness ==
    /\ res.op = "LoadFromFile" /\ Validated
    /\ ~KindEnabled("azure") /\ KindEnabled("hashicorp")
    /\ Len(Listed("hashicorp")) = 0
    /\ res.cfg = NoConfig
    /\ res.err = "invalid configuration: hashicorp provider is enabled but has no instances configured"

\* in a Config, every enabled kind has a non-empty list whose instances all
\* have a name and the required credentials
WellFormed(cfg) ==
    /\ cfg.Providers.Azure.Enabled =>
          /\ Len(cfg.Providers.Azure.Instances) > 0
          /\ \A i \in 1..Len(cfg.Providers.Azure.Instances) :
                LET inst == cfg.Providers.Azure.Instances[i]
                IN inst.Name # "" /\ inst.SubscriptionID # ""
    /\ cfg.Providers.Hashicorp.Enabled =>
          /\ Len(cfg.Providers.Hashicorp.Instances) > 0
          /\ \A i \in 1..Len(cfg.Providers.Hashicorp.Instances) :
                LET inst == cfg.Providers.Hashicorp.Instances[i]
                IN inst.Name # "" /\ inst.Address # "" /\ inst.Token # ""

SomeOffence == \E kind \in Kinds : KindEnabled(kind) /\ Offences(kind) # {}

\* C13 as claimed: for every enabled kind, a configuration in which an instance
\* has an empty name or an empty required credential is rejected with an error
\* that names an offending instance and its offending field; a Config returned
\* has, for every enabled kind, a non-empty list of instances with name and
\* required credentials.
C13_OffenceNamed ==
    /\ (Validated /\ SomeOffence) =>
          /\ Rejected
          /\ \E kind \in Kinds :
                /\ KindEnabled(kind)
                /\ \E o \in Offences(kind) : NamesOffence(res.err, kind, o)
    /\ (IsLoad /\ res.err = NoError) => WellFormed(res.cfg)

\* C13: for every enabled kind, a configuration in which an instance has an
\* empty name or an empty required credential (azure: subscription_id;
\* hashicorp: address, token; namespace may be empty) is rejected.  The error
\* is the first violation in the order of validation: azure's empty list when
\* azure is enabled without instances, and otherwise the first offending
\* instance and field of the first kind that has one.  A Config returned has,
\* for every enabled kind, a non-empty list of instances with name and
\* required credentials.
C13_FirstOffenceNamed ==
    /\ (Validated /\ SomeOffence) =>
          /\ Rejected
          /\ IF KindEnabled("azure") /\ Len(Listed("azure")) = 0
             THEN NamesEmptyKind(res.err, "azure")
             ELSE LET kind == IF AzureFails THEN "azure" ELSE "hashicorp"
                  IN NamesOffence(res.err, kind, FirstOffence(kind))
    /\ (IsLoad /\ res.err = NoError) => WellFormed(res.cfg)

\* azure is valid and the instance of hashicorp has no token
C13_Witness ==
    /\ res.op = "Load" /\ Validated
    /\ KindEnabled("azure") /\ Len(Listed("azure")) = 1 /\ Offences("azure") = {}
    /\ KindEnabled("hashicorp") /\ Offences("hashicorp") = {<<1, 3>>}
    /\ res.cfg = NoConfig
    /\ res.err = "invalid configuration: hashicorp instance 'prod' has no token"

\* s has a token whose variable is set and not empty
HasSetToken(s) ==
    \E t \in TokensOf(s) : IsSetNonEmpty(TokenName(SubSeq(s, t[1], t[2])))

ConfigReturned == IsLoad /\ res.err = NoError
AzureOf(cfg) == cfg.Providers.Azure.Instances
HashicorpOf(cfg) == cfg.Providers.Hashicorp.Instances

\* C15 as claimed: substitution is applied to every string field of every
\* instance of both kinds, enabled or not, so that no string field of an
\* instance of the returned Config has a token whose variable is set and not
\* empty.
C15_NoSetTokenLeft ==
    ConfigReturned =>
        /\ \A i \in 1..Len(AzureOf(res.cfg)) :
              \A field \in {"name", "subscription_id"} :
                  ~HasSetToken(FieldOf(AzureOf(res.cfg)[i], field))
        /\ \A i \in 1..Len(HashicorpOf(res.cfg)) :
              \A field \in {"name", "address", "token", "namespace"} :
                  ~HasSetToken(FieldOf(HashicorpOf(res.cfg)[i], field))

\* C15: during load, substitution is applied once to every credential field
\* (azure: subscription_id; hashicorp: address, token, namespace) of every
\* instance of both kinds, whether or not the kind is enabled: in the returned
\* Config each such field is the file's text with every token whose variable is
\* set and not empty replaced by the variable's value.  The name of an
\* instance is not substituted, and a value put in is not expanded again.
C15_CredentialsExpanded ==
    ConfigReturned =>
        /\ Len(AzureOf(res.cfg)) = Len(Listed("azure"))
        /\ \A i \in 1..Len(Listed("azure")) :
              /\ AzureOf(res.cfg)[i].SubscriptionID = Expanded(Listed("azure")[i].SubscriptionID)
              /\ AzureOf(res.cfg)[i].Name = Listed("azure")[i].Name
        /\ Len(HashicorpOf(res.cfg)) = Len(Listed("hashicorp"))
        /\ \A i \in 1..Len(Listed("hashicorp")) :
              /\ \A field \in {"address", "token", "namespace"} :
                    FieldOf(HashicorpOf(res.cfg)[i], field)
                        = Expanded(FieldOf(Listed("hashicorp")[i], field))
              /\ HashicorpOf(res.cfg)[i].Name = Listed("hashicorp")[i].Name

\* azure is switched off, A is "v", and the subscription_id "${A}" of its
\* instance has become "v" in the Config returned
C15_Witness ==
    /\ ConfigReturned /\ res.op = "LoadFromFile"
    /\ ~KindEnabled("azure")
    /\ Len(Listed("azure")) = 1 /\ Listed("azure")[1].SubscriptionID = "${A}"
    /\ Getenv("A") = "v"
    /\ AzureOf(res.cfg)[1].SubscriptionID = "v"

\* C16 as claimed: with no file in the default directory and no option
\* variable set in the environment, Load proceeds with the defaults and
\* returns a Config.
C16_LoadWithoutFile ==
    (/\ res.op = "Load"
     /\ fs.default.status = "missing"
     /\ \A key \in OptionKeys : OptionVar(key) \notin DOMAIN environ)
        => res.err = NoError /\ res.cfg # NoConfig

\* C17: LoadFromFile reads the file it is given and no other: when that file
\* is missing, unreadable or unparsable it returns an error that names the
\* path and no Config, whatever the default directory holds; a Config it
\* returns lists the instances of the given file.
C17_LoadFromFileReadsGiven ==
    res.op = "LoadFromFile" =>
        /\ fs.given.status # "ok" =>
              /\ res.cfg = NoConfig
              /\ HasPrefix(res.err, "failed to read config file " \o res.path)
        /\ res.err = NoError =>
              /\ fs.given.status = "ok"
              /\ [i \in 1..Len(AzureOf(res.cfg)) |-> AzureOf(res.cfg)[i].Name]
                    = [i \in 1..Len(fs.given.content.azure) |-> fs.given.content.azure[i].Name]
              /\ [i \in 1..Len(HashicorpOf(res.cfg)) |-> HashicorpOf(res.cfg)[i].Name]
                    = [i \in 1..Len(fs.given.content.hashicorp) |->
                          fs.given.content.hashicorp[i].Name]

\* the given file is missing while the default directory holds a file that
\* loads: LoadFromFile fails
C17_Witness ==
    /\ res.op = "LoadFromFile"
    /\ fs.given.status = "missing"
    /\ fs.default.status = "ok"
    /\ fs.default.content.azure = <<ValidAzureInstance>>
    /\ fs.default.content.hashicorp = <<ValidHashicorpInstance>>
    /\ DOMAIN fs.default.content.options = {}
    /\ res.cfg = NoConfig /\ res.err # NoError

\* C18 as claimed: the value of every option key in the loaded Config is the
\* value of its environment variable if set, else the file's value if
\* present, else the default.
C18_EnvIfSet ==
    ConfigReturned =>
        /\ \A key \in StringKeys : StringOption(res.cfg, key) = LayeredIfSet(key)
        /\ \A key \in BoolKeys :
              \/ Truthy(LayeredIfSet(key)) /\ BoolOption(res.cfg, key)
              \/ Falsy(LayeredIfSet(key)) /\ ~BoolOption(res.cfg, key)

\* C18: the value of every option key (fzf.height, fzf.border, fzf.preview,
\* filters.enabled_only, providers.azure.enabled, providers.hashicorp.enabled)
\* in the loaded Config is the value of its environment variable
\* (SMART_KEYVAULT_ and the key, dots replaced by underscores) if that is set
\* to a non-empty value, else the file's value if present, else the default; a
\* lower layer never overrides a higher one.
C18_EnvOverFileOverDefault ==
    ConfigReturned =>
        /\ \A key \in StringKeys : StringOption(res.cfg, key) = Layered(key)
        /\ \A key \in BoolKeys :
              \/ Truthy(Layered(key)) /\ BoolOption(res.cfg, key)
              \/ Falsy(Layered(key)) /\ ~BoolOption(res.cfg, key)

\* the file sets fzf.height to "50%" and the environment to "80%": the Config
\* has "80%", and the default "rounded" for fzf.border, which nothing sets
C18_Witness ==
    /\ ConfigReturned /\ res.op = "Load"
    /\ fs.default.status = "ok"
    /\ "fzf.height" \in DOMAIN fs.default.content.options
    /\ fs.default.content.options["fzf.height"] = "50%"
    /\ Getenv("SMART_KEYVAULT_FZF_HEIGHT") = "80%"
    /\ res.cfg.FZF.Height = "80%"
    /\ res.cfg.FZF.Border = "rounded"

(***************************************************************************)
(* The command layer: loadConfig and getProviderConfig (package main)      *)
(***************************************************************************)
\* a fallback Config that carries a default instance of azure
FallbackConfig_WithInstance ==
    [Providers |-> [Azure |-> [Enabled |-> TRUE,
                               Instances |-> <<[Name |-> "default", SubscriptionID |-> "",
                                                Default |-> TRUE]>>],
                    Hashicorp |-> [Enabled |-> TRUE, Instances |-> << >>]],
     FZF |-> [Height |-> "40%", Border |-> "rounded", Preview |-> FALSE],
     Filters |-> [EnabledOnly |-> TRUE]]

\* the Config loadConfig installs when loading fails
FallbackConfig ==
    [Providers |-> [Azure |-> [Enabled |-> TRUE, Instances |-> << >>],
                    Hashicorp |-> [Enabled |-> TRUE, Instances |-> << >>]],
     FZF |-> [Height |-> "40%", Border |-> "rounded", Preview |-> FALSE],
     Filters |-> [EnabledOnly |-> TRUE]]

\* loadConfig: the Config appConfig is set to; the error returned is always nil
loadConfig(configPath) ==
    LET r == IF configPath # "" THEN LoadFromFile(configPath) ELSE Load
    IN IF r.err # NoError THEN FallbackConfig ELSE r.cfg

ProviderConfig(cfg) == [cfg |-> cfg, err |-> NoError]
NoProviderConfig(msg) == [cfg |-> Nil, err |-> msg]

\* a getProviderConfig that takes the default instance when the instance named
\* is not there
getProviderConfig_DefaultOnMiss(c, providerName, instanceName) ==
    IF providerName = "azure"
    THEN LET named == GetAzureInstance(c, instanceName)
             r == IF instanceName # "" /\ named.err = NoError THEN named
                  ELSE GetDefaultAzureInstance(c)
         IN IF r.err # NoError
            THEN NoProviderConfig("failed to get Azure instance: " \o r.err)
            ELSE ProviderConfig([Name |-> providerName,
                                 Settings |-> [subscription_id |-> r.inst.SubscriptionID]])
    ELSE IF providerName = "hashicorp"
    THEN LET named == GetHashicorpInstance(c, instanceName)
             r == IF instanceName # "" /\ named.err = NoError THEN named
                  ELSE GetDefaultHashicorpInstance(c)
         IN IF r.err # NoError
            THEN NoProviderConfig("failed to get Hashicorp instance: " \o r.err)
            ELSE ProviderConfig([Name |-> providerName,
                                 Settings |-> [address |-> r.inst.Address,
                                               token |-> r.inst.Token,
                                               namespace |-> r.inst.Namespace]])
    ELSE NoProviderConfig("unknown provider: " \o providerName)

\* getProviderConfig once appConfig is c
getProviderConfig(c, providerName, instanceName) ==
    IF providerName = "azure"
    THEN LET r == IF instanceName # "" THEN GetAzureInstance(c, instanceName)
                  ELSE GetDefaultAzureInstance(c)
         IN IF r.err # NoError
            THEN NoProviderConfig("failed to get Azure instance: " \o r.err)
            ELSE ProviderConfig([Name |-> providerName,
                                 Settings |-> [subscription_id |-> r.inst.SubscriptionID]])
    ELSE IF providerName = "hashicorp"
    THEN LET r == IF instanceName # "" THEN GetHashicorpInstance(c, instanceName)
                  ELSE GetDefaultHashicorpInstance(c)
         IN IF r.err # NoError
            THEN NoProviderConfig("failed to get Hashicorp instance: " \o r.err)
            ELSE ProviderConfig([Name |-> providerName,
                                 Settings |-> [address |-> r.inst.Address,
                                               token |-> r.inst.Token,
                                               namespace |-> r.inst.Namespace]])
    ELSE NoProviderConfig("unknown provider: " \o providerName)

\* the --provider, --instance and --config flags of a command
ProviderFlags == Names \cup {"gcp"}
InstanceFlags == RequestNames \cup {""}
ConfigFlags == {"", GivenPath}

\* getProviderConfig(providerName, instanceName): the first call loads the
\* configuration
CallGetProviderConfig ==
    /\ \E providerName \in ProviderFlags, instanceName \in InstanceFlags,
          configPath \in ConfigFlags :
         LET c == IF appConfig = NoConfig THEN loadConfig(configPath) ELSE appConfig
             r == getProviderConfig(c, providerName, instanceName)
         IN /\ appConfig' = c
            /\ res' = [op |-> "getProviderConfig", provider |-> providerName,
                       instance |-> instanceName, cfg |-> r.cfg, err |-> r.err]
    /\ UNCHANGED <<regVars, sysVars, runVars, cacheVars>>

\* the instances of the files the commands read: the credentials of an
\* instance tell its name
CommandAzureInstances ==
    { [Name |-> name, SubscriptionID |-> "sub-" \o name, Default |-> default] :
        name \in InstanceNames, default \in BOOLEAN }
CommandHashicorpInstances ==
    { [Name |-> name, Address |-> "https://" \o name \o ":8200",
       Token |-> "tok-" \o name, Namespace |-> "", Default |-> default] :
        name \in InstanceNames, default \in BOOLEAN }

\* a process before its first command: no Config yet; a file with at most
\* MaxInstances instances in the default directory or at the given path, or
\* no file
InitCommand ==
    /\ RegInit
    /\ Idle
    /\ appConfig = NoConfig
    /\ res = NoCall
    /\ environ = WithHome(NoEnviron)
    /\ \/ fs = NoFiles
       \/ \E azure \in SeqsUpTo(CommandAzureInstances, MaxInstances) :
           \E hashicorp \in SeqsUpTo(CommandHashicorpInstances,
                                     MaxInstances - Len(azure)) :
             \E options \in EnabledOptions :
               LET content == [options |-> options, azure |-> azure,
                               hashicorp |-> hashicorp]
               IN fs \in { [default |-> FileOf(content), given |-> MissingFile],
                           [default |-> MissingFile, given |-> FileOf(content)] }

NextCommand == CallGetProviderConfig

SpecCommand == InitCommand /\ [][NextCommand]_vars

(***************************************************************************)
(* Properties of getProviderConfig                                         *)
(***************************************************************************)
\* the instances of the kind asked for in the loaded Config
AskedInstances ==
    IF res.provider = "azure" THEN appConfig.Providers.Azure.Instances
    ELSE appConfig.Providers.Hashicorp.Instances

\* the settings bag made from an instance
SettingsOf(inst) ==
    IF res.provider = "azure" THEN [subscription_id |-> inst.SubscriptionID]
    ELSE [address |-> inst.Address, token |-> inst.Token, namespace |-> inst.Namespace]

AskedByName == { i \in 1..Len(AskedInstances) : AskedInstances[i].Name = res.instance }
AskedFlagged == { i \in 1..Len(AskedInstances) : AskedInstances[i].Default }

\* C11: getProviderConfig with a non-empty instance name builds the settings
\* bag from the instance of that exact name only, and when no instance has the
\* name it fails, with no settings, instead of taking the default instance;
\* only with an empty instance name does it take the default instance (the
\* first one flagged, else the first).
C11_ExplicitInstancePreferred ==
    (res.op = "getProviderConfig" /\ res.provider \in Names) =>
        /\ (res.instance # "" /\ AskedByName # {}) =>
              /\ res.err = NoError
              /\ res.cfg.Name = res.provider
              /\ res.cfg.Settings = SettingsOf(AskedInstances[Least(AskedByName)])
        /\ (res.instance # "" /\ AskedByName = {}) =>
              /\ res.cfg = Nil
              /\ Contains(res.err, "instance '" \o res.instance \o "' not found")
        /\ (res.instance = "" /\ Len(AskedInstances) > 0) =>
              /\ res.err = NoError
              /\ res.cfg.Settings =
                    SettingsOf(AskedInstances[IF AskedFlagged # {}
                                              THEN Least(AskedFlagged) ELSE 1])

\* "dev" is the default instance and "prod" is asked for: the settings are
\* those of "prod"
C11_Witness ==
    /\ res.op = "getProviderConfig" /\ res.provider = "azure" /\ res.instance = "prod"
    /\ Len(AskedInstances) = 2
    /\ AskedInstances[1].Name = "dev" /\ AskedInstances[1].Default
    /\ AskedInstances[2].Name = "prod" /\ ~AskedInstances[2].Default
    /\ res.err = NoError
    /\ res.cfg.Settings = [subscription_id |-> "sub-prod"]

(***************************************************************************)
(* The Vault backend: Provider.ListSecrets and Provider.GetSecret          *)
(* (internal/hashicorp/provider.go) over the KV v2 client.                 *)
(* What the server answers is an input of each call: an error, nothing, or *)
(* the keys of a listing / the field map of an entry.  The keys of a       *)
(* listing are strings, as Vault returns them.                             *)
(***************************************************************************)
\* longest listing of a mount
MaxKeys == 3

HasSuffix(s, suffix) ==
    Len(s) >= Len(suffix) /\ SubSeq(s, Len(s) - Len(suffix) + 1, Len(s)) = suffix
TrimSuffix(s, suffix) ==
    IF HasSuffix(s, suffix) THEN SubSeq(s, 1, Len(s) - Len(suffix)) ELSE s

\* "Ensure vaultName ends with /"
WithSlash(vaultName) ==
    IF ~HasSuffix(vaultName, "/") THEN vaultName \o "/" ELSE vaultName

\* what the server answers to a list and to a read
NoAnswer == [kind |-> "nil"]
ErrorAnswer == [kind |-> "error"]
\* an answer without a list of keys, or without a map of fields, in it
OtherAnswer == [kind |-> "other"]
KeysAnswer(keys) == [kind |-> "keys", keys |-> keys]
DataAnswer(data) == [kind |-> "data", data |-> data]

\* Client.ListSecrets: the keys listed, the empty list when there is nothing
ClientListSecrets(answer) ==
    IF answer.kind = "error"
    THEN [keys |-> << >>, err |-> "failed to list secrets: connection refused"]
    ELSE IF answer.kind = "keys" THEN [keys |-> answer.keys, err |-> NoError]
    ELSE [keys |-> << >>, err |-> NoError]

\* Client.GetSecret: the field map of the entry
ClientGetSecret(answer) ==
    IF answer.kind = "error"
    THEN [data |-> << >>, err |-> "failed to read secret: connection refused"]
    ELSE IF answer.kind = "nil" THEN [data |-> << >>, err |-> "secret not found"]
    ELSE IF answer.kind # "data" THEN [data |-> << >>, err |-> "invalid secret data format"]
    ELSE [data |-> answer.data, err |-> NoError]

\* a loop over the keys that keeps the directories
RECURSIVE SecretsOf_All(_, _, _)
SecretsOf_All(keys, vaultName, i) ==
    IF i > Len(keys) THEN << >>
    ELSE <<[Name |-> keys[i], VaultName |-> TrimSuffix(vaultName, "/"),
            Provider |-> "hashicorp", Enabled |-> TRUE]>>
         \o SecretsOf_All(keys, vaultName, i + 1)

\* for _, key := range keys, from the i-th key on
RECURSIVE SecretsOf(_, _, _)
SecretsOf(keys, vaultName, i) ==
    IF i > Len(keys) THEN << >>
    ELSE IF HasSuffix(keys[i], "/") THEN SecretsOf(keys, vaultName, i + 1)
    ELSE <<[Name |-> keys[i], VaultName |-> TrimSuffix(vaultName, "/"),
            Provider |-> "hashicorp", Enabled |-> TRUE]>>
         \o SecretsOf(keys, vaultName, i + 1)

\* Provider.ListSecrets(ctx, vaultName), the server answering the list of
\* vaultName/metadata/
ListSecrets(vaultName, answer) ==
    LET listed == ClientListSecrets(answer)
    IN IF listed.err # NoError
       THEN [secrets |-> Nil, err |-> "failed to list secrets: " \o listed.err]
       ELSE [secrets |-> SecretsOf(listed.keys, WithSlash(vaultName), 1), err |-> NoError]

\* the values Provider.GetSecret may take from the field map: Go ranges over
\* a map in an order that is not specified and changes from run to run
ValuesOf(data) ==
    IF "value" \in DOMAIN data THEN {data["value"]}
    ELSE IF "password" \in DOMAIN data THEN {data["password"]}
    ELSE IF DOMAIN data = {} THEN {""}
    ELSE { data[key] : key \in DOMAIN data }

\* Provider.GetSecret(ctx, vaultName, secretName), the server answering the
\* read of vaultName/data/secretName: the results it may return
GetSecret(vaultName, secretName, answer) ==
    LET read == ClientGetSecret(answer)
    IN IF read.err # NoError
       THEN { [secret |-> Nil, err |-> "failed to get secret: " \o read.err] }
       ELSE { [secret |-> [Name |-> secretName, Value |-> value,
                           VaultName |-> TrimSuffix(WithSlash(vaultName), "/"),
                           Provider |-> "hashicorp"],
               err |-> NoError] : value \in ValuesOf(read.data) }

\* mounts, as a caller may name them, and the keys of a listing
VaultNames == {"secret", "secret/", "team/kv", "team/kv/"}
SecretKeys == {"db", "api-key", "app/"}
SecretNames == {"db"}
\* the fields an entry may have, each with its own value
FieldValues ==
    [value |-> "s3cr3t", password |-> "hunter2", username |-> "admin", api_key |-> "k-123"]
Entries == { [field \in fields |-> FieldValues[field]] : fields \in SUBSET DOMAIN FieldValues }

CallListSecrets ==
    /\ \E vaultName \in VaultNames,
          answer \in {NoAnswer, ErrorAnswer, OtherAnswer}
                      \cup { KeysAnswer(keys) : keys \in SeqsUpTo(SecretKeys, MaxKeys) } :
         LET r == ListSecrets(vaultName, answer)
         IN res' = [op |-> "ListSecrets", vault |-> vaultName, answer |-> answer,
                    secrets |-> r.secrets, err |-> r.err]
    /\ UNCHANGED <<appConfig, regVars, sysVars, runVars, cacheVars>>

\* res.before is the entry and the value of the GetSecret just before this
\* one, when there was one
CallGetSecret ==
    /\ \E vaultName \in VaultNames, secretName \in SecretNames,
          answer \in {NoAnswer, ErrorAnswer, OtherAnswer}
                      \cup { DataAnswer(data) : data \in Entries } :
         \E r \in GetSecret(vaultName, secretName, answer) :
            res' = [op |-> "GetSecret", vault |-> vaultName, name |-> secretName,
                    answer |-> answer, secret |-> r.secret, err |-> r.err,
                    before |-> IF res.op = "GetSecret" /\ res.err = NoError
                               THEN [data |-> res.answer.data, value |-> res.secret.Value]
                               ELSE Nil]
    /\ UNCHANGED <<appConfig, regVars, sysVars, runVars, cacheVars>>

NextHashicorp ==
    \/ CallListSecrets
    \/ CallGetSecret

SpecHashicorp == Init /\ [][NextHashicorp]_vars

(***************************************************************************)
(* Properties of the Vault backend                                         *)
(***************************************************************************)
\* C19 as claimed: GetSecret returns the field "value" if the entry has it,
\* else the field "password" if it has it, else the only field of an entry
\* with exactly one field; the value is a function of the entry's field map:
\* two calls on the same field map return the same value.
C19_ValueByPriority ==
    (res.op = "GetSecret" /\ res.err = NoError) =>
        LET data == res.answer.data
        IN /\ "value" \in DOMAIN data => res.secret.Value = data["value"]
           /\ ("value" \notin DOMAIN data /\ "password" \in DOMAIN data) =>
                 res.secret.Value = data["password"]
           /\ (DOMAIN data \cap {"value", "password"} = {} /\ Cardinality(DOMAIN data) = 1) =>
                 \A field \in DOMAIN data : res.secret.Value = data[field]
           /\ (res.before # Nil /\ res.before.data = data) =>
                 res.secret.Value = res.before.value

IsLeaf(key) == ~HasSuffix(key, "/")

\* C20: ListSecrets returns exactly the keys of the root listing of the mount
\* that do not end in "/", in the order of the listing, each enabled and with
\* the vault name without its trailing slash, whether the caller gave the
\* vault name with or without one.
C20_ListSecretsLeaves ==
    (res.op = "ListSecrets" /\ res.err = NoError) =>
        LET keys == IF res.answer.kind = "keys" THEN res.answer.keys ELSE << >>
        IN /\ [i \in 1..Len(res.secrets) |-> res.secrets[i].Name] = SelectSeq(keys, IsLeaf)
           /\ \A i \in 1..Len(res.secrets) :
                 /\ res.secrets[i].Enabled
                 /\ res.secrets[i].Provider = "hashicorp"
                 /\ ~HasSuffix(res.secrets[i].VaultName, "/")
                 /\ res.vault \in {res.secrets[i].VaultName, res.secrets[i].VaultName \o "/"}

\* the vault is given as "team/kv/", and of the keys listed the directory
\* "app/" between "db" and "api-key" is left out
C20_Witness ==
    /\ res.op = "ListSecrets" /\ res.err = NoError
    /\ res.vault = "team/kv/"
    /\ res.answer = KeysAnswer(<<"db", "app/", "api-key">>)
    /\ Len(res.secrets) = 2
    /\ res.secrets[1].Name = "db" /\ res.secrets[2].Name = "api-key"
    /\ res.secrets[1].VaultName = "team/kv"

(***************************************************************************)
(* GetProvider and the constructor's error                                 *)
(***************************************************************************)
\* the error the constructor of a finished GetProvider call returned
ConstructorError(fr) == FactoryResult(fr.fac, fr.cfg).err

\* the calls of GetProvider that have returned and whose constructor failed
FailedConstructions ==
    { fr \in FramesOf("GetProvider") :
        fr.pc = "done" /\ fr.exists /\ ConstructorError(fr) # NoError }

\* C21: when the constructor registered for a name returns an error,
\* GetProvider returns an error that adds context naming the provider to the
\* constructor's error, which stays identifiable inside it.
C21_ErrorNamesProvider ==
    \A fr \in FailedConstructions :
        /\ fr.ret.provider = NoProvider
        /\ HasSuffix(fr.ret.err, ConstructorError(fr))
        /\ Contains(fr.ret.err, fr.name)

(***************************************************************************)
(* The commands (package main): list-vaults, list-secrets, get-secret and  *)
(* walk-secrets, run once in a process of its own                          *)
(***************************************************************************)
\* a string setting of a provider.Config, "" when the key is not in the bag
Setting(cfg, key) ==
    IF cfg # Nil /\ key \in DOMAIN cfg.Settings THEN cfg.Settings[key] ELSE ""

Built(provider) == [provider |-> provider, err |-> NoError]
NotBuilt(msg) == [provider |-> NoProvider, err |-> msg]

\* azure.NewProvider: the subscription of the settings, else the one of
\* AZURE_SUBSCRIPTION_ID; NewClient fails when no credential can be made
AzureNewProvider(cfg) ==
    LET fromConfig == Setting(cfg, "subscription_id")
        subscriptionID == IF fromConfig = "" THEN Getenv("AZURE_SUBSCRIPTION_ID")
                          ELSE fromConfig
    IN IF subscriptionID = ""
       THEN NotBuilt("subscription_id is required for Azure provider (set via config or AZURE_SUBSCRIPTION_ID env var)")
       ELSE IF backend.client # NoError
       THEN NotBuilt("failed to create Azure client: failed to create Azure credential: "
                     \o backend.client)
       ELSE Built([kind |-> "azure", subscriptionID |-> subscriptionID])

\* vault.DefaultConfig: the address of VAULT_ADDR, else the library's own
DefaultVaultAddress == "https://127.0.0.1:8200"
DefaultConfigAddress ==
    IF Getenv("VAULT_ADDR") # "" THEN Getenv("VAULT_ADDR") ELSE DefaultVaultAddress

\* hashicorp.NewClient(address, token, namespace)
HashicorpNewClient(address, token, namespace) ==
    LET fromDefault == IF address # "" THEN address ELSE DefaultConfigAddress
        addr == IF fromDefault = "" THEN Getenv("VAULT_ADDR") ELSE fromDefault
        tok == IF token = "" THEN Getenv("VAULT_TOKEN") ELSE token
        ns == IF namespace = "" THEN Getenv("VAULT_NAMESPACE") ELSE namespace
    IN IF addr = ""
       THEN NotBuilt("vault address not set (provide via config or VAULT_ADDR env var)")
       ELSE IF backend.client # NoError
       THEN NotBuilt("failed to create Vault client: " \o backend.client)
       ELSE IF tok = ""
       THEN NotBuilt("vault token not set (provide via config or VAULT_TOKEN env var)")
       ELSE Built([kind |-> "hashicorp", address |-> addr, token |-> tok,
                   namespace |-> ns])

\* hashicorp.NewProvider
HashicorpNewProvider(cfg) ==
    LET r == HashicorpNewClient(Setting(cfg, "address"), Setting(cfg, "token"),
                                Setting(cfg, "namespace"))
    IN IF r.err # NoError
       THEN NotBuilt("failed to create Vault client: " \o r.err)
       ELSE r

\* the constructors init() registers, and one of a backend added later
InitFactories ==
    [name \in {"azure", "hashicorp"} |->
        IF name = "azure" THEN "azure.NewProvider" ELSE "hashicorp.NewProvider"]
WithBackend(name) ==
    [n \in DOMAIN InitFactories \cup {name} |->
        IF n \in DOMAIN InitFactories THEN InitFactories[n] ELSE "F_ok"]

\* factory(cfg) for the constructor f
Construct(f, cfg) ==
    IF f = "azure.NewProvider" THEN AzureNewProvider(cfg)
    ELSE IF f = "hashicorp.NewProvider" THEN HashicorpNewProvider(cfg)
    ELSE FactoryResult(f, cfg)

\* provider.GetProvider(name, cfg) when no Register runs beside it
GetProvider(name, cfg) ==
    IF name \notin DOMAIN factories
    THEN NotBuilt("provider not found: " \o name)
    ELSE Construct(factories[name], cfg)

\* what an operation of a provider returns: its data or an error
Returns(data) == [data |-> data, err |-> NoError]
Fails(msg) == [data |-> << >>, err |-> msg]

\* Provider.ListVaults, Provider.ListSecrets, Provider.GetSecret: the answer
\* of the secret store, an error of it wrapped
ProviderListVaults ==
    IF backend.vaults.err # NoError
    THEN Fails("failed to list vaults: " \o backend.vaults.err)
    ELSE Returns(backend.vaults.names)
ProviderListSecrets(vault) ==
    LET a == backend.listing[vault]
    IN IF a.err # NoError
       THEN Fails("failed to list secrets: " \o a.err)
       ELSE Returns(a.names)
ProviderGetSecret(p, vault, name) ==
    LET a == backend.values[vault][name]
    IN IF a.err # NoError
       THEN Fails("failed to get secret: " \o a.err)
       ELSE Returns([Name |-> name, Value |-> a.value, VaultName |-> vault,
                     Provider |-> p.kind])

\* the operation call of the provider p
Perform(p, call) ==
    IF call.op = "ListVaults" THEN ProviderListVaults
    ELSE IF call.op = "ListSecrets" THEN ProviderListSecrets(call.vault)
    ELSE ProviderGetSecret(p, call.vault, call.name)

\* output.GetFormatter
GetFormatter(format) ==
    IF format \in {"plain", "json"}
    THEN [formatter |-> format, err |-> NoError]
    ELSE [formatter |-> "nil", err |-> "unsupported format: " \o format]

\* context.Background(): no deadline, never cancelled
Background == [deadline |-> FALSE, cancelled |-> FALSE]

\* the command with its flags, about to run
Command(cmd, providerName, instanceName, vaultName, secretName, formatType, copyToClip, configPath) ==
    [pc |-> "start", cmd |-> cmd, providerName |-> providerName,
     instanceName |-> instanceName, vaultName |-> vaultName,
     secretName |-> secretName, formatType |-> formatType,
     copyToClip |-> copyToClip, configPath |-> configPath,
     p |-> NoProvider, invoked |-> << >>, settings |-> Nil,
     call |-> Nil, answer |-> Nil,
     vaults |-> << >>, vi |-> 0, secrets |-> << >>, si |-> 0,
     secretValues |-> << >>, secretsByVault |-> << >>]

\* RunE returns err: main writes it to the error stream and exits with 1
ExitError(pr, out, err) ==
    [proc |-> [pr EXCEPT !.pc = "exit"],
     io |-> [out EXCEPT !.stderr = Append(@, err), !.exited = TRUE, !.code = 1]]

\* fmt.Println(result); RunE returns nil
ExitPrinting(pr, out, result) ==
    [proc |-> [pr EXCEPT !.pc = "exit"],
     io |-> [out EXCEPT !.stdout = Append(@, result), !.exited = TRUE, !.code = 0]]

\* p.<op>(ctx, ...) is entered
Issue(pr, out, call) ==
    [proc |-> [pr EXCEPT !.pc = "call", !.call = call @@ [ctx |-> Background],
                         !.answer = Nil],
     io |-> out]

\* GetFormatter, the formatter's method, fmt.Println
PrintFormatted(pr, out, what, data) ==
    LET f == GetFormatter(pr.formatType)
    IN IF f.err # NoError THEN ExitError(pr, out, f.err)
       ELSE ExitPrinting(pr, out, [format |-> f.formatter, what |-> what,
                                   data |-> data])

\* walk-secrets: the loop over the vaults from index vi on
WalkFrom(pr, out, vi) ==
    IF vi > Len(pr.vaults)
    THEN PrintFormatted(pr, out, "walk", pr.secretsByVault)
    ELSE Issue([pr EXCEPT !.vi = vi], out,
               [op |-> "ListSecrets", vault |-> pr.vaults[vi], name |-> ""])

\* walk-secrets: the loop over the secrets of a vault from index si on
WalkSecretsFrom(pr, out, si) ==
    IF si > Len(pr.secrets)
    THEN LET vault == pr.vaults[pr.vi]
             byVault == [v \in DOMAIN pr.secretsByVault \cup {vault} |->
                            IF v = vault THEN pr.secretValues
                            ELSE pr.secretsByVault[v]]
         IN WalkFrom([pr EXCEPT !.secretsByVault = byVault], out, pr.vi + 1)
    ELSE Issue([pr EXCEPT !.si = si], out,
               [op |-> "GetSecret", vault |-> pr.vaults[pr.vi],
                name |-> pr.secrets[si]])

\* the first operation a command asks of its provider
FirstCall(pr, out) ==
    IF pr.cmd = "list-vaults"
    THEN Issue(pr, out, [op |-> "ListVaults", vault |-> "", name |-> ""])
    ELSE IF pr.cmd = "list-secrets"
    THEN Issue(pr, out, [op |-> "ListSecrets", vault |-> pr.vaultName, name |-> ""])
    ELSE IF pr.cmd = "get-secret"
    THEN Issue(pr, out, [op |-> "GetSecret", vault |-> pr.vaultName,
                         name |-> pr.secretName])
    ELSE IF pr.vaultName # ""
    THEN WalkFrom([pr EXCEPT !.vaults = <<pr.vaultName>>], out, 1)
    ELSE Issue(pr, out, [op |-> "ListVaults", vault |-> "", name |-> ""])

\* every command begins alike: loadConfig, getProviderConfig, GetProvider
Execute ==
    /\ proc.pc = "start"
    /\ \E c \in {loadConfig(proc.configPath)} :
       \E pcfg \in {getProviderConfig(c, proc.providerName, proc.instanceName)} :
       \E g \in {IF pcfg.err # NoError THEN NotBuilt(pcfg.err)
                 ELSE GetProvider(proc.providerName, pcfg.cfg)} :
       \E next \in
            {IF pcfg.err # NoError THEN ExitError(proc, io, pcfg.err)
             ELSE IF g.err # NoError
             THEN ExitError([proc EXCEPT
                               !.settings = pcfg.cfg.Settings,
                               !.invoked = IF proc.providerName \in DOMAIN factories
                                           THEN <<factories[proc.providerName]>>
                                           ELSE << >>],
                            io, g.err)
             ELSE FirstCall([proc EXCEPT
                               !.p = g.provider,
                               !.settings = pcfg.cfg.Settings,
                               !.invoked = <<factories[proc.providerName]>>],
                            io)} :
          /\ appConfig' = c
          /\ proc' = next.proc
          /\ io' = next.io
    /\ UNCHANGED <<res, backend, regVars, sysVars, cacheVars>>

\* the secret store answers and the provider's operation returns
ProviderReturns ==
    /\ proc.pc = "call"
    /\ proc' = [proc EXCEPT !.pc = "returned", !.answer = Perform(proc.p, proc.call)]
    /\ UNCHANGED <<io, backend, cfgVars, regVars, sysVars, cacheVars>>

\* list-vaults and list-secrets after the provider's operation
ListResume ==
    /\ proc.pc = "returned"
    /\ proc.cmd \in {"list-vaults", "list-secrets"}
    /\ LET next == IF proc.answer.err # NoError
                   THEN ExitError(proc, io, proc.answer.err)
                   ELSE PrintFormatted(proc, io,
                            IF proc.cmd = "list-vaults" THEN "vaults" ELSE "secrets",
                            proc.answer.data)
       IN proc' = next.proc /\ io' = next.io
    /\ UNCHANGED <<backend, cfgVars, regVars, sysVars, cacheVars>>

\* a get-secret that reports the value with the failure to copy it
GetSecretResume_Echo ==
    /\ proc.pc = "returned"
    /\ proc.cmd = "get-secret"
    /\ LET value == proc.answer.data.Value
           next ==
             IF proc.answer.err # NoError THEN ExitError(proc, io, proc.answer.err)
             ELSE IF ~proc.copyToClip THEN ExitPrinting(proc, io, value)
             ELSE ExitError(proc, io, "failed to copy to clipboard: " \o value)
       IN proc' = next.proc /\ io' = next.io
    /\ UNCHANGED <<backend, cfgVars, regVars, sysVars, cacheVars>>

\* get-secret after p.GetSecret: clipboard.Copy or fmt.Println of the value
GetSecretResume ==
    /\ proc.pc = "returned"
    /\ proc.cmd = "get-secret"
    /\ LET next ==
             IF proc.answer.err # NoError THEN ExitError(proc, io, proc.answer.err)
             ELSE IF ~proc.copyToClip
             THEN ExitPrinting(proc, io, proc.answer.data.Value)
             ELSE IF backend.clipboard # NoError
             THEN ExitError(proc, io,
                      "failed to copy to clipboard: failed to copy to clipboard: "
                      \o backend.clipboard)
             ELSE [proc |-> [proc EXCEPT !.pc = "exit"],
                   io |-> [io EXCEPT
                             !.clipboard = Append(@, proc.answer.data.Value),
                             !.stderr = Append(@, "Secret '" \o proc.secretName
                                                  \o "' copied to clipboard!"),
                             !.exited = TRUE, !.code = 0]]
       IN proc' = next.proc /\ io' = next.io
    /\ UNCHANGED <<backend, cfgVars, regVars, sysVars, cacheVars>>

\* a walk-secrets that gives up at the first vault it cannot list
WalkResume_GiveUp ==
    /\ proc.pc = "returned"
    /\ proc.cmd = "walk-secrets"
    /\ LET a == proc.answer
           vault == proc.call.vault
           next ==
             IF proc.call.op = "ListVaults"
             THEN IF a.err # NoError
                  THEN ExitError(proc, io, "failed to list vaults: " \o a.err)
                  ELSE WalkFrom([proc EXCEPT !.vaults = a.data], io, 1)
             ELSE IF proc.call.op = "ListSecrets"
             THEN IF a.err # NoError
                  THEN ExitError(proc, io, "failed to list secrets in vault " \o vault
                                           \o ": " \o a.err)
                  ELSE WalkSecretsFrom([proc EXCEPT !.secrets = a.data,
                                                    !.secretValues = << >>], io, 1)
             ELSE IF a.err # NoError
                  THEN WalkSecretsFrom(proc,
                           [io EXCEPT !.stderr = Append(@,
                              "Warning: failed to get secret " \o proc.call.name
                              \o " in vault " \o vault \o ": " \o a.err)],
                           proc.si + 1)
                  ELSE WalkSecretsFrom([proc EXCEPT !.secretValues = Append(@, a.data)],
                                       io, proc.si + 1)
       IN proc' = next.proc /\ io' = next.io
    /\ UNCHANGED <<backend, cfgVars, regVars, sysVars, cacheVars>>

\* walk-secrets after p.ListVaults, p.ListSecrets or p.GetSecret
WalkResume ==
    /\ proc.pc = "returned"
    /\ proc.cmd = "walk-secrets"
    /\ LET a == proc.answer
           vault == proc.call.vault
           next ==
             IF proc.call.op = "ListVaults"
             THEN IF a.err # NoError
                  THEN ExitError(proc, io, "failed to list vaults: " \o a.err)
                  ELSE WalkFrom([proc EXCEPT !.vaults = a.data], io, 1)
             ELSE IF proc.call.op = "ListSecrets"
             THEN IF a.err # NoError
                  THEN WalkFrom(proc,
                           [io EXCEPT !.stderr = Append(@,
                              "Warning: failed to list secrets in vault " \o vault
                              \o ": " \o a.err)],
                           proc.vi + 1)
                  ELSE WalkSecretsFrom([proc EXCEPT !.secrets = a.data,
                                                    !.secretValues = << >>], io, 1)
             ELSE IF a.err # NoError
                  THEN WalkSecretsFrom(proc,
                           [io EXCEPT !.stderr = Append(@,
                              "Warning: failed to get secret " \o proc.call.name
                              \o " in vault " \o vault \o ": " \o a.err)],
                           proc.si + 1)
                  ELSE WalkSecretsFrom([proc EXCEPT !.secretValues = Append(@, a.data)],
                                       io, proc.si + 1)
       IN proc' = next.proc /\ io' = next.io
    /\ UNCHANGED <<backend, cfgVars, regVars, sysVars, cacheVars>>

(***************************************************************************)
(* The secret store behind a provider, and the runs of the commands        *)
(***************************************************************************)
\* vaults and secrets known to a store together
MaxItems == 3

VaultPool == {"kv", "app"}
SecretPool == {"db", "api"}
ValueOf(name) == "pw-" \o name

\* a secret of a vault: its value can be read, or reading it fails
SecretEntries ==
    { [name |-> n, err |-> e, value |-> IF e = NoError THEN ValueOf(n) ELSE ""] :
        n \in SecretPool, e \in {NoError, "permission denied"} }

\* the listings of at most n secrets, no name twice
RECURSIVE SecretLists(_, _)
SecretLists(n, used) ==
    {<< >>} \cup
    IF n = 0 THEN {}
    ELSE UNION { { <<e>> \o rest : rest \in SecretLists(n - 1, used \cup {e.name}) } :
                 e \in { x \in SecretEntries : x.name \notin used } }

\* what a vault answers to a listing: an error, or its secrets
Contents(n) ==
    { [err |-> "connection refused", secrets |-> << >>] }
    \cup { [err |-> NoError, secrets |-> s] : s \in SecretLists(n, {}) }

\* the vaults of a store, in the order ListVaults gives them: at most n vaults
\* and secrets together, no vault twice
RECURSIVE Stores(_, _)
Stores(n, used) ==
    {<< >>} \cup
    IF n = 0 THEN {}
    ELSE UNION { UNION { { <<[name |-> v, content |-> c]>> \o rest :
                             rest \in Stores(n - 1 - Len(c.secrets), used \cup {v}) } :
                         c \in Contents(n - 1) } :
                 v \in VaultPool \ used }

IndexOfVault(store, v) ==
    IF \E i \in 1..Len(store) : store[i].name = v
    THEN CHOOSE i \in 1..Len(store) : store[i].name = v
    ELSE 0

\* the answers of a store: to ListVaults, to a listing of each vault, to a
\* read of each secret; whether a client of it can be made, and whether the
\* clipboard takes a text
Backend(store, vaultsErr, clientErr, clipboardErr) ==
    [client |-> clientErr,
     clipboard |-> clipboardErr,
     vaults |-> [err |-> vaultsErr,
                 names |-> IF vaultsErr # NoError THEN << >>
                           ELSE [i \in 1..Len(store) |-> store[i].name]],
     listing |->
        [v \in VaultPool |->
            LET i == IndexOfVault(store, v)
            IN IF i = 0 THEN [err |-> "vault not found", names |-> << >>]
               ELSE [err |-> store[i].content.err,
                     names |-> [k \in 1..Len(store[i].content.secrets) |->
                                   store[i].content.secrets[k].name]]],
     values |->
        [v \in VaultPool |->
            [n \in SecretPool |->
                LET i == IndexOfVault(store, v)
                    found == IF i = 0 THEN {}
                             ELSE { k \in 1..Len(store[i].content.secrets) :
                                      store[i].content.secrets[k].name = n }
                IN IF found = {} THEN [err |-> "secret not found", value |-> ""]
                   ELSE LET e == store[i].content.secrets[CHOOSE k \in found : TRUE]
                        IN [err |-> e.err, value |-> e.value]]]]

AllStores == Stores(MaxItems, {})
StoreErrors == {NoError, "connection refused"}

\* a store with one vault and one secret in it that answers every question
SampleStore ==
    << [name |-> "kv",
        content |-> [err |-> NoError,
                     secrets |-> << [name |-> "db", err |-> NoError,
                                     value |-> ValueOf("db")] >>]] >>
SampleBackend == Backend(SampleStore, NoError, NoError, NoError)

\* a process started on one command: init() has registered the two
\* constructors (and others those of backends added later)
Started(command, registry) ==
    /\ factories = registry
    /\ mu = [w |-> NoThread, writing |-> FALSE, readers |-> [u \in Threads |-> 0]]
    /\ stack = [u \in Threads |-> <<>>]
    /\ nCalls = 0
    /\ registered = DOMAIN registry
    /\ appConfig = NoConfig
    /\ res = NoCall
    /\ proc = command
    /\ io = NoOutput
    /\ azClient = NoClient
    /\ getting = NoGetting

\* the file of the runs that look at what a command writes: one instance of
\* each kind
InitGood ==
    /\ environ = WithHome(NoEnviron)
    /\ fs = [default |-> FileOf(SampleContent), given |-> MissingFile]

\* get-secret, list-vaults and list-secrets against the stores
InitOutput ==
    /\ InitGood
    /\ \E store \in AllStores, vaultsErr \in StoreErrors, clientErr \in StoreErrors,
          clipboardErr \in {NoError, "exit status 1"} :
         /\ vaultsErr = NoError \/ clientErr = NoError
         /\ backend = Backend(store, vaultsErr, clientErr, clipboardErr)
    /\ \E providerName \in Names, secretName \in SecretPool, copyToClip \in BOOLEAN,
          cmd \in {"get-secret", "list-vaults", "list-secrets"},
          formatType \in {"plain", "json", "xml"} :
         /\ cmd = "get-secret" => formatType = "plain"
         /\ cmd # "get-secret" => (~copyToClip /\ secretName = "db")
         /\ Started(Command(cmd, providerName, "", "kv", secretName, formatType,
                            copyToClip, ""),
                    InitFactories)

\* walk-secrets against the stores, over all vaults or over one
InitWalk ==
    /\ InitGood
    /\ \E store \in AllStores, vaultsErr \in StoreErrors :
         backend = Backend(store, vaultsErr, NoError, NoError)
    /\ \E vaultName \in {"", "kv"}, formatType \in {"json", "xml"} :
         Started(Command("walk-secrets", "hashicorp", "", vaultName, "", formatType,
                         FALSE, ""),
                 InitFactories)

\* the commands that ask one thing of a provider, and all four
Commands == {"list-vaults", "list-secrets", "get-secret", "walk-secrets"}

\* list-vaults with each --provider, --instance and --config, on a file with
\* at most MaxInstances instances or on none; a backend "aws" has been added
InitResolve ==
    /\ environ = WithHome(NoEnviron)
    /\ backend = SampleBackend
    /\ \/ fs = NoFiles
       \/ \E azure \in SeqsUpTo(CommandAzureInstances, MaxInstances) :
           \E hashicorp \in SeqsUpTo(CommandHashicorpInstances,
                                     MaxInstances - Len(azure)) :
             \E options \in EnabledOptions :
               LET content == [options |-> options, azure |-> azure,
                               hashicorp |-> hashicorp]
               IN fs \in { [default |-> FileOf(content), given |-> MissingFile],
                           [default |-> MissingFile, given |-> FileOf(content)] }
    /\ \E providerName \in ProviderFlags \cup {"aws"}, instanceName \in InstanceFlags,
          configPath \in ConfigFlags :
         Started(Command("list-vaults", providerName, instanceName, "kv", "db",
                         "plain", FALSE, configPath),
                 WithBackend("aws"))

\* the variables the constructors read, set or not
ProviderEnvirons ==
    { env \in Environs({"AZURE_SUBSCRIPTION_ID", "VAULT_ADDR", "VAULT_TOKEN"},
                       {"", "from-env"}) :
        ("VAULT_ADDR" \in DOMAIN env) = ("VAULT_TOKEN" \in DOMAIN env) }

\* every command with the configuration in the environment only, or with a
\* file that cannot be used
InitEnvironment ==
    /\ backend = SampleBackend
    /\ environ \in { WithHome(env) : env \in ProviderEnvirons }
    /\ fs \in { NoFiles,
                [default |-> UnreadableFile, given |-> MissingFile],
                [default |-> UnparsableFile, given |-> MissingFile],
                [default |-> FileOf(SampleContent), given |-> MissingFile],
                [default |-> FileOf(SampleContent), given |-> UnreadableFile],
                [default |-> FileOf(SampleContent), given |-> UnparsableFile],
                [default |-> FileOf(SampleContent), given |-> FileOf(EmptyContent)] }
    /\ \E cmd \in Commands, providerName \in ProviderFlags \cup {"aws"},
          instanceName \in {"", "prod"}, configPath \in ConfigFlags :
         Started(Command(cmd, providerName, instanceName, "kv", "db",
                         IF cmd = "walk-secrets" THEN "json" ELSE "plain",
                         FALSE, configPath),
                 WithBackend("aws"))

\* list-vaults on a file of one instance of each kind whose credentials may be
\* a token and nothing else, the variable A unset, empty or set
InitTokens ==
    /\ backend = SampleBackend
    /\ environ \in { WithHome(others) : others \in Environs({"A"}, TextVarValues) }
    /\ \E subscriptionID \in {"sub-1", "${A}", "$A"},
          address \in {"https://vault:8200", "${A}", "$A"},
          token \in {"tok-1", "${A}", "$A", ""} :
         fs = [default |-> FileOf([options |-> << >>,
                                   azure |-> <<[ValidAzureInstance EXCEPT
                                                  !.SubscriptionID = subscriptionID]>>,
                                   hashicorp |-> <<[ValidHashicorpInstance EXCEPT
                                                      !.Address = address,
                                                      !.Token = token]>>]),
               given |-> MissingFile]
    /\ \E providerName \in Names, instanceName \in {"", "prod"} :
         Started(Command("list-vaults", providerName, instanceName, "kv", "db",
                         "plain", FALSE, ""),
                 InitFactories)

InitRun ==
    \/ InitOutput
    \/ InitWalk
    \/ InitResolve
    \/ InitEnvironment
    \/ InitTokens

NextRun ==
    \/ Execute
    \/ ProviderReturns
    \/ ListResume
    \/ GetSecretResume
    \/ WalkResume

SpecRun == InitRun /\ [][NextRun]_vars

\* the steps of the command itself; whether the secret store ever answers is
\* not in its hands
ProgramStep ==
    \/ Execute
    \/ ListResume
    \/ GetSecretResume
    \/ WalkResume

FairSpecRun == InitRun /\ [][NextRun]_vars /\ WF_vars(ProgramStep)

(***************************************************************************)
(* Properties of the commands                                              *)
(***************************************************************************)
Exited(cmd) == proc.pc = "exit" /\ proc.cmd = cmd /\ io.exited

\* the texts of a stream that hold the value of a secret of the store
Leaks(stream) ==
    { i \in 1..Len(stream) : \E n \in SecretPool : Contains(stream[i], ValueOf(n)) }

\* what the store holds for the secret a get-secret asks for
Asked == backend.values[proc.vaultName][proc.secretName]

\* something went wrong on the way of a get-secret that has ended
GetSecretFailed ==
    \/ proc.p = NoProvider
    \/ proc.answer.err # NoError
    \/ proc.copyToClip /\ backend.clipboard # NoError

\* C22: get-secret never writes the value of a secret to the error stream,
\* in an error message or otherwise.  Without --copy the value goes to
\* standard output only; with --copy it goes to the clipboard only, and the
\* confirmation on the error stream carries the secret's name.  On any failure
\* no value is emitted anywhere and the exit status is not zero.
C22_ValueNeverOnErrorStream ==
    (proc.pc # "none" /\ proc.cmd = "get-secret") =>
        /\ Leaks(io.stderr) = {}
        /\ (Exited("get-secret") /\ ~GetSecretFailed /\ ~proc.copyToClip) =>
              /\ io.code = 0
              /\ io.stdout = <<Asked.value>>
              /\ io.clipboard = << >>
              /\ io.stderr = << >>
        /\ (Exited("get-secret") /\ ~GetSecretFailed /\ proc.copyToClip) =>
              /\ io.code = 0
              /\ io.clipboard = <<Asked.value>>
              /\ io.stdout = << >>
              /\ io.stderr = <<"Secret '" \o proc.secretName \o "' copied to clipboard!">>
        /\ (Exited("get-secret") /\ GetSecretFailed) =>
              /\ io.code # 0
              /\ io.stdout = << >>
              /\ io.clipboard = << >>
              /\ Len(io.stderr) = 1

\* the value of "db" was read and --copy given, and the clipboard refused it:
\* the error stream has the failure without the value, the status is 1
C22_Witness ==
    /\ Exited("get-secret") /\ proc.copyToClip /\ proc.secretName = "db"
    /\ proc.answer # Nil
    /\ proc.answer.err = NoError /\ proc.answer.data.Value = "pw-db"
    /\ backend.clipboard # NoError
    /\ io.code = 1
    /\ io.stderr = <<"failed to copy to clipboard: failed to copy to clipboard: exit status 1">>
    /\ io.stdout = << >> /\ io.clipboard = << >>

\* the command is past its beginning: the configuration is loaded and the
\* provider was asked for, or the command has given up before
Dispatched == proc.pc \notin {"none", "start"}

\* the configuration has an instance to give for the --instance asked, for
\* each kind it knows
InstanceAvailable ==
    \A kind \in Names : getProviderConfig(appConfig, kind, proc.instanceName).err = NoError

\* C23: a backend registered under a new name is usable through the commands
\* as they are: for every registered provider name, list-vaults, list-secrets
\* and get-secret reach GetProvider for that name and invoke its constructor.
C23_RegisteredNameUsable ==
    (/\ Dispatched
     /\ proc.cmd \in {"list-vaults", "list-secrets", "get-secret"}
     /\ proc.providerName \in DOMAIN factories
     /\ InstanceAvailable) =>
        proc.invoked = <<factories[proc.providerName]>>

\* list-vaults of the kind, with no --instance and no --config, and no config
\* file anywhere
EnvironmentOnly(kind) ==
    /\ Dispatched
    /\ proc.cmd = "list-vaults" /\ proc.providerName = kind
    /\ proc.instanceName = "" /\ proc.configPath = ""
    /\ fs = NoFiles

\* C24: configuration by environment variables only works: with no config
\* file and AZURE_SUBSCRIPTION_ID set (VAULT_ADDR and VAULT_TOKEN set),
\* list-vaults --provider azure (--provider hashicorp) reaches the provider's
\* construction and the provider is built from the values in the environment.
C24_EnvironmentOnlyWorks ==
    /\ (EnvironmentOnly("azure") /\ Getenv("AZURE_SUBSCRIPTION_ID") # "") =>
          /\ proc.invoked = <<"azure.NewProvider">>
          /\ proc.p = [kind |-> "azure",
                       subscriptionID |-> Getenv("AZURE_SUBSCRIPTION_ID")]
    /\ (EnvironmentOnly("hashicorp") /\ Getenv("VAULT_ADDR") # ""
            /\ Getenv("VAULT_TOKEN") # "") =>
          /\ proc.invoked = <<"hashicorp.NewProvider">>
          /\ proc.p = [kind |-> "hashicorp", address |-> Getenv("VAULT_ADDR"),
                       token |-> Getenv("VAULT_TOKEN"),
                       namespace |-> Getenv("VAULT_NAMESPACE")]

\* an operation of the provider is in flight
InFlight == proc.pc = "call"

\* C25: every operation a command asks of its provider is given a
\* cancellation/deadline signal derived from one top-level timeout of the
\* command layer, so that an operation the secret store never answers is
\* aborted in the end and the command terminates.
C25_OperationsHaveDeadline ==
    /\ [](InFlight => proc.call.ctx.deadline)
    /\ (InFlight ~> proc.pc = "exit")

(***************************************************************************)
(* The azure Client's cache of secrets clients: Client.getSecretsClient    *)
(***************************************************************************)
\* calls of getSecretsClient made in one behaviour
MaxGets == 3

\* a Client just made by NewClient: an empty cache, its mutex free
NewAzureClient ==
    [secretClients |-> << >>,
     mu |-> [w |-> NoThread, writing |-> FALSE, readers |-> [u \in Threads |-> 0]]]

\* a goroutine that is in no call of getSecretsClient
NotGetting == [pc |-> "idle"]

\* getSecretsClient(vaultName) is entered; history: known, the clients that
\* calls for the vault had returned by then
GetFrame(vaultName) ==
    [pc |-> "RLock", vaultName |-> vaultName, client |-> 0, exists |-> FALSE,
     err |-> NoError, constructed |-> 0, stored |-> FALSE,
     known |-> getting.returned[vaultName]]

\* return client, nil / return nil, err; history: the client returned
Return(t, fr) ==
    [getting EXCEPT
       !.frames[t] = [fr EXCEPT !.pc = "done"],
       !.returned[fr.vaultName] = IF fr.err = NoError THEN @ \cup {fr.client} ELSE @]

GetSecretsClientCall(t) ==
    /\ azClient # NoClient
    /\ getting.calls < MaxGets
    /\ getting.frames[t].pc \in {"idle", "done"}
    /\ IF t = 1 THEN TRUE ELSE getting.frames[t - 1].pc # "idle"
    /\ \E vaultName \in VaultPool :
         getting' = [getting EXCEPT !.frames[t] = GetFrame(vaultName),
                                    !.calls = @ + 1]
    /\ UNCHANGED <<azClient, proc, io, backend, cfgVars, regVars, sysVars>>

\* c.mu.RLock(); client, exists := c.secretClients[vaultName]
GetSecretsClientRLock(t) ==
    /\ azClient # NoClient
    /\ getting.frames[t].pc = "RLock"
    /\ azClient.mu.w = NoThread
    /\ LET fr == getting.frames[t]
           exists == fr.vaultName \in DOMAIN azClient.secretClients
       IN getting' = [getting EXCEPT !.frames[t] =
              [fr EXCEPT !.pc = "RUnlock", !.exists = exists,
                         !.client = IF exists THEN azClient.secretClients[fr.vaultName]
                                    ELSE 0]]
    /\ azClient' = [azClient EXCEPT !.mu.readers[t] = @ + 1]
    /\ UNCHANGED <<proc, io, backend, cfgVars, regVars, sysVars>>

\* c.mu.RUnlock(); if exists { return client, nil }
GetSecretsClientRUnlock(t) ==
    /\ azClient # NoClient
    /\ getting.frames[t].pc = "RUnlock"
    /\ azClient' = [azClient EXCEPT !.mu.readers[t] = @ - 1]
    /\ LET fr == getting.frames[t]
       IN getting' = IF fr.exists THEN Return(t, fr)
                     ELSE [getting EXCEPT !.frames[t].pc = "NewClient"]
    /\ UNCHANGED <<proc, io, backend, cfgVars, regVars, sysVars>>

\* client, err := azsecrets.NewClient(vaultURL, c.credential, nil); a new
\* client is told from the others by its number
GetSecretsClientNewClient(t) ==
    /\ azClient # NoClient
    /\ getting.frames[t].pc = "NewClient"
    /\ LET fr == getting.frames[t]
       IN \/ getting' = Return(t, [fr EXCEPT
                            !.constructed = @ + 1,
                            !.err = "failed to create secrets client for vault "
                                    \o fr.vaultName \o ": invalid vault URL"])
          \/ getting' = [getting EXCEPT
                           !.frames[t] = [fr EXCEPT !.pc = "Lock",
                                                    !.constructed = @ + 1,
                                                    !.client = getting.clients + 1],
                           !.clients = @ + 1]
    /\ UNCHANGED <<azClient, proc, io, backend, cfgVars, regVars, sysVars>>

\* c.mu.Lock(), first half: the writers' mutex is taken
GetSecretsClientLock(t) ==
    /\ azClient # NoClient
    /\ getting.frames[t].pc = "Lock"
    /\ azClient.mu.w = NoThread
    /\ azClient' = [azClient EXCEPT !.mu.w = t]
    /\ getting' = [getting EXCEPT !.frames[t].pc = "LockWait"]
    /\ UNCHANGED <<proc, io, backend, cfgVars, regVars, sysVars>>

\* Lock(), second half: the active readers have left; then
\* c.secretClients[vaultName] = client
GetSecretsClientStore(t) ==
    /\ azClient # NoClient
    /\ getting.frames[t].pc = "LockWait"
    /\ \A u \in Threads : azClient.mu.readers[u] = 0
    /\ LET fr == getting.frames[t]
       IN /\ azClient' = [azClient EXCEPT
                !.mu.writing = TRUE,
                !.secretClients = StoreFactory(@, fr.vaultName, fr.client)]
          /\ getting' = [getting EXCEPT
                !.frames[t] = [fr EXCEPT !.pc = "Unlock", !.stored = TRUE],
                !.cached[fr.vaultName] = @ \cup {fr.client}]
    /\ UNCHANGED <<proc, io, backend, cfgVars, regVars, sysVars>>

\* c.mu.Unlock(); return client, nil
GetSecretsClientUnlock(t) ==
    /\ azClient # NoClient
    /\ getting.frames[t].pc = "Unlock"
    /\ azClient' = [azClient EXCEPT !.mu.w = NoThread, !.mu.writing = FALSE]
    /\ getting' = Return(t, getting.frames[t])
    /\ UNCHANGED <<proc, io, backend, cfgVars, regVars, sysVars>>

\* a provider's Client shared by the goroutines, before its first call
InitCache ==
    /\ RegInit
    /\ appConfig = NoConfig
    /\ res = NoCall
    /\ environ = NoEnviron
    /\ fs = NoFiles
    /\ proc = NoProcess
    /\ io = NoOutput
    /\ backend = NoBackend
    /\ azClient = NewAzureClient
    /\ getting = [frames |-> [t \in Threads |-> NotGetting],
                  returned |-> [v \in VaultPool |-> {}],
                  cached |-> [v \in VaultPool |-> {}],
                  calls |-> 0, clients |-> 0]

NextCache ==
    \E t \in Threads :
        \/ GetSecretsClientCall(t)
        \/ GetSecretsClientRLock(t)
        \/ GetSecretsClientRUnlock(t)
        \/ GetSecretsClientNewClient(t)
        \/ GetSecretsClientLock(t)
        \/ GetSecretsClientStore(t)
        \/ GetSecretsClientUnlock(t)

SpecCache == InitCache /\ [][NextCache]_vars


\* goroutine t is in a call of getSecretsClient at pc
GettingAt(t, pc) == azClient # NoClient /\ getting.frames[t].pc = pc

\* the locking discipline of the cache: a lookup holds only the read lock, an
\* insertion holds the write lock, no reader is in while the map is written,
\* no lock is held while a client is constructed, and a failed construction
\* leaves the cache as it was
CacheLocking ==
    azClient # NoClient =>
      /\ azClient.mu.writing => \A u \in Threads : azClient.mu.readers[u] = 0
      /\ \A t \in Threads :
           LET fr == getting.frames[t]
           IN /\ fr.pc = "RUnlock" =>
                    azClient.mu.readers[t] = 1 /\ azClient.mu.w # t
              /\ fr.pc = "Unlock" =>
                    /\ azClient.mu.w = t /\ azClient.mu.writing
                    /\ azClient.secretClients[fr.vaultName] = fr.client
              /\ fr.pc = "NewClient" =>
                    azClient.mu.readers[t] = 0 /\ azClient.mu.w # t
              /\ (fr.pc = "done" /\ fr.err # NoError) =>
                    /\ ~fr.stored
                    /\ \A v \in DOMAIN azClient.secretClients :
                         azClient.secretClients[v] \in getting.cached[v]

\* a call that began after a successful call for its vault had returned
\* constructs nothing and returns a client out of the cache
LaterCallsHit ==
    azClient # NoClient =>
      \A t \in Threads :
        LET fr == getting.frames[t]
        IN (fr.pc = "done" /\ fr.known # {}) =>
             /\ fr.err = NoError
             /\ fr.constructed = 0
             /\ fr.client \in getting.cached[fr.vaultName]

\* C26: the per-vault client cache is thread-safe under every interleaving of
\* getSecretsClient calls: lookups under the read lock only, insertions under
\* the write lock, no map access during a write, no lock during construction,
\* nothing cached by a failed construction, and every call begun after a
\* successful call for the same vault returned gets the very client that call
\* returned, constructing none
C26_CacheThreadSafe ==
    /\ CacheLocking
    /\ LaterCallsHit
    /\ azClient # NoClient =>
         \A t \in Threads :
           LET fr == getting.frames[t]
           IN fr.pc = "done" => \A c \in fr.known : fr.client = c

\* what Load or LoadFromFile returned to the loadConfig of the command
LoadOutcome ==
    IF proc.configPath # "" THEN LoadFromFile(proc.configPath) ELSE Load

ValidList(kind) == Len(Listed(kind)) > 0 /\ Offences(kind) = {}
OtherKind(kind) == IF kind = "azure" THEN "hashicorp" ELSE "azure"
EnabledKey(kind) == "providers." \o kind \o ".enabled"

ConfigFile == IF proc.configPath # "" THEN fs.given ELSE fs.default
FileListed(kind) ==
    IF ConfigFile.status = "ok" THEN ConfigFile.content[kind] ELSE << >>
InstancesOf(cfg, kind) ==
    IF kind = "azure" THEN cfg.Providers.Azure.Instances
    ELSE cfg.Providers.Hashicorp.Instances

\* the credentials validation requires of an instance of a kind
RequiredCredentials(kind) ==
    IF kind = "azure" THEN {"subscription_id"} ELSE {"address", "token"}

\* the text is a reference to one variable and nothing else, and that variable
\* is unset or empty
UnresolvedToken(text) ==
    \E var \in {"A"} :
        /\ text \in {"${" \o var \o "}", "$" \o var}
        /\ ~IsSetNonEmpty(var)

\* the file lists, for each kind, one instance at least, each with a name and
\* some text in every required credential
FileComplete ==
    \A kind \in Kinds :
        /\ Len(FileListed(kind)) > 0
        /\ \A i \in 1..Len(FileListed(kind)) :
             /\ FileListed(kind)[i].Name # ""
             /\ \A field \in RequiredCredentials(kind) :
                  FieldOf(FileListed(kind)[i], field) # ""

\* C29: substitution runs before validation and leaves an unresolved token as
\* it is, so a required credential (subscription_id, address, token) that is
\* wholly a ${VAR} or $VAR token with VAR unset or empty passes validation as
\* non-empty; the instance of the loaded Config holds the token's text, and so
\* does the settings bag the provider's constructor is given.
C29_UnresolvedTokenPasses ==
    (Dispatched /\ ConfigFile.status = "ok") =>
      /\ FileComplete => (LoadOutcome.err = NoError /\ appConfig # FallbackConfig)
      /\ \A kind \in Kinds :
           \A i \in 1..Len(FileListed(kind)) :
             \A field \in RequiredCredentials(kind) :
               LET text == FieldOf(FileListed(kind)[i], field)
               IN (UnresolvedToken(text) /\ LoadOutcome.err = NoError) =>
                    /\ Len(InstancesOf(appConfig, kind)) = Len(FileListed(kind))
                    /\ FieldOf(InstancesOf(appConfig, kind)[i], field) = text
                    /\ (/\ kind = proc.providerName
                        /\ Len(FileListed(kind)) = 1
                        /\ proc.instanceName \in {"", FileListed(kind)[i].Name}) =>
                           /\ proc.settings # Nil
                           /\ proc.settings[field] = text
                           /\ proc.invoked # << >>

\* the file's hashicorp instance has the address "$A" and the token "${A}", A
\* is set to the empty string: the configuration loaded, and the constructor of
\* hashicorp was given the two token texts
C29_Witness ==
    /\ Dispatched
    /\ proc.providerName = "hashicorp"
    /\ "A" \in DOMAIN environ /\ environ["A"] = ""
    /\ Len(FileListed("hashicorp")) = 1
    /\ FileListed("hashicorp")[1].Address = "$A"
    /\ FileListed("hashicorp")[1].Token = "${A}"
    /\ appConfig # FallbackConfig
    /\ proc.settings # Nil
    /\ proc.settings.address = "$A"
    /\ proc.settings.token = "${A}"
    /\ proc.invoked = <<"hashicorp.NewProvider">>

\* the vaults a walk-secrets goes through: the one given, or those of the store
WalkedVaults ==
    IF proc.vaultName # "" THEN <<proc.vaultName>> ELSE backend.vaults.names
\* those of them whose secrets the store lists
ListedVaults ==
    { WalkedVaults[i] : i \in { k \in 1..Len(WalkedVaults) :
                                  backend.listing[WalkedVaults[k]].err = NoError } }
\* the secrets of a vault the store gives the value of, in the order of the
\* listing
FetchedSecrets(vault) ==
    LET Readable(name) == backend.values[vault][name].err = NoError
        names == SelectSeq(backend.listing[vault].names, Readable)
    IN [k \in 1..Len(names) |->
          [Name |-> names[k], Value |-> backend.values[vault][names[k]].value,
           VaultName |-> vault, Provider |-> proc.p.kind]]
\* the listings and the reads that fail on the way
FailedListings ==
    { k \in 1..Len(WalkedVaults) : backend.listing[WalkedVaults[k]].err # NoError }
FailedReads ==
    { vn \in ListedVaults \X SecretPool :
        /\ \E k \in 1..Len(backend.listing[vn[1]].names) :
             backend.listing[vn[1]].names[k] = vn[2]
        /\ backend.values[vn[1]][vn[2]].err # NoError }
Warnings(stream) == { i \in 1..Len(stream) : HasPrefix(stream[i], "Warning: ") }

\* what makes a walk-secrets give up: no provider (its configuration or its
\* construction failed), ListVaults failing when no vault is given, no
\* formatter
WalkAborts ==
    \/ proc.p = NoProvider
    \/ proc.vaultName = "" /\ backend.vaults.err # NoError
    \/ GetFormatter(proc.formatType).err # NoError

\* C30: walk-secrets tolerates partial failure.  A vault whose secrets cannot
\* be listed, or a secret whose value cannot be fetched, only gives a warning
\* on the error stream and the walk goes on; the command then exits with 0 and
\* prints one entry for every vault whose listing succeeded, none for a vault
\* whose listing failed, each entry holding exactly the secrets fetched, in
\* the order of the listing.  Only a failure of ListVaults (no vault given), of
\* getting the provider, or of formatting makes the command fail.
C30_WalkToleratesFailures ==
    Exited("walk-secrets") =>
      IF WalkAborts
      THEN /\ io.code = 1
           /\ io.stdout = << >>
           /\ Len(io.stderr) = Cardinality(Warnings(io.stderr)) + 1
      ELSE /\ io.code = 0
           /\ Warnings(io.stderr) = 1..Len(io.stderr)
           /\ Len(io.stderr) = Cardinality(FailedListings) + Cardinality(FailedReads)
           /\ Len(io.stdout) = 1
           /\ io.stdout[1].what = "walk"
           /\ DOMAIN io.stdout[1].data = ListedVaults
           /\ \A vault \in ListedVaults :
                io.stdout[1].data[vault] = FetchedSecrets(vault)

\* the store has the vaults kv and app; kv cannot be listed, app lists db,
\* which is read: one warning, status 0, and one entry, for app, with db
C30_Witness ==
    /\ Exited("walk-secrets")
    /\ proc.vaultName = ""
    /\ backend.vaults.names = <<"kv", "app">>
    /\ backend.listing["kv"].err # NoError
    /\ io.code = 0
    /\ io.stderr = <<"Warning: failed to list secrets in vault kv: failed to list secrets: connection refused">>
    /\ Len(io.stdout) = 1
    /\ DOMAIN io.stdout[1].data = {"app"}
    /\ Len(io.stdout[1].data["app"]) = 1
    /\ io.stdout[1].data["app"][1].Name = "db"
    /\ io.stdout[1].data["app"][1].Value = ValueOf("db")

====
